---- MODULE Spec2Model ----
(***************************************************************************)
(* Scapegoat tree over an arena (code_snippets/chp12/diff_fuzz/src/tree).  *)
(*                                                                         *)
(* The tree is a record, the operations are operators from tree values to  *)
(* outcomes [st, t, ret]; st is "ok", "panic" (the call aborts: index of   *)
(* an empty slot, push on a full ArrayVec, unwrap/expect of a None/Err) or *)
(* "hang" (a loop that never ends).  Arena indexes are 0-based as in the   *)
(* source; slot idx of the arena is vec[idx + 1].  Option::None of an      *)
(* index or of a value is None.  The build modelled is the default feature *)
(* set (no fast_rebalance, no low_mem_insert, no alt_impl) with            *)
(* debug_assert! compiled out.                                             *)
(***************************************************************************)
EXTENDS Integers, Sequences, FiniteSets, TLC

\* ---- bounds ------------------------------------------------------------
N == 4
MaxVal == 2
MaxHW == 6
MaxRebal == 1
MaxOther == 2
MaxIter == 5
NDeep == 5
MaxParam == 16

\* the keys the calls store in a tree of capacity cap are the even numbers up
\* to 2 * cap; the keys looked up include the odd numbers between and around
KeysOf(cap) == {2 * k : k \in 1..cap}
ProbesOf(cap) == 1..(2 * cap + 1)
Keys == KeysOf(N)
Vals == 1..MaxVal

\* ---- program constants ---------------------------------------------------
DEFAULT_ALPHA_NUM == 2
DEFAULT_ALPHA_DENOM == 3

None == -1

\* ---- Node ----------------------------------------------------------------
\* `key` is the part of K that Ord compares, `ktag` the part it does not.
NodeNew(key, ktag, val) ==
    [occ |-> TRUE, key |-> key, ktag |-> ktag, val |-> val,
     left_idx |-> None, right_idx |-> None]

\* an arena slot holding Option::None
EmptySlot ==
    [occ |-> FALSE, key |-> 0, ktag |-> 0, val |-> 0,
     left_idx |-> None, right_idx |-> None]

\* ---- small sequence helpers ------------------------------------------------
Last(s) == s[Len(s)]
Front(s) == SubSeq(s, 1, Len(s) - 1)
Contains(s, x) == \E i \in 1..Len(s) : s[i] = x
Reverse(s) == [i \in 1..Len(s) |-> s[Len(s) + 1 - i]]
SeqSet(s) == {s[i] : i \in 1..Len(s)}

\* the value x under the name that F gives it
With(x, F(_)) == F(x)

\* ---- Arena -----------------------------------------------------------------
\* cap is the const generic N of the type
ArenaNew(cap) == [vec |-> <<>>, free_list |-> <<>>, cap |-> cap]

is_occupied(a, idx) == idx >= 0 /\ idx < Len(a.vec) /\ a.vec[idx + 1].occ

\* the add that takes the oldest free index
arena_add_oldest(a, key, ktag, val) ==
    IF a.free_list # <<>>
    THEN LET free_idx == Head(a.free_list)
         IN
             [st |-> "ok",
              a |-> [a EXCEPT !.vec[free_idx + 1] = NodeNew(key, ktag, val),
                              !.free_list = Tail(a.free_list)],
              idx |-> free_idx]
    ELSE IF Len(a.vec) >= a.cap
         THEN [st |-> "panic", a |-> a, idx |-> None]
         ELSE [st |-> "ok",
               a |-> [a EXCEPT !.vec = Append(a.vec, NodeNew(key, ktag, val))],
               idx |-> Len(a.vec)]

\* Arena::add: pop the free list, else push at the tail (push on a full
\* ArrayVec panics)
arena_add(a, key, ktag, val) ==
    IF a.free_list # <<>>
    THEN LET free_idx == Last(a.free_list)
         IN
             [st |-> "ok",
              a |-> [a EXCEPT !.vec[free_idx + 1] = NodeNew(key, ktag, val),
                              !.free_list = Front(a.free_list)],
              idx |-> free_idx]
    ELSE IF Len(a.vec) >= a.cap
         THEN [st |-> "panic", a |-> a, idx |-> None]
         ELSE [st |-> "ok",
               a |-> [a EXCEPT !.vec = Append(a.vec, NodeNew(key, ktag, val))],
               idx |-> Len(a.vec)]

\* Arena::remove: takes the node out and pushes idx on the free list;
\* node.occ = FALSE stands for the returned None
arena_remove(a, idx) ==
    IF is_occupied(a, idx)
    THEN IF Len(a.free_list) >= a.cap
         THEN [st |-> "panic", a |-> a, node |-> EmptySlot]
         ELSE [st |-> "ok",
               a |-> [a EXCEPT !.vec[idx + 1] = EmptySlot,
                               !.free_list = Append(a.free_list, idx)],
               node |-> a.vec[idx + 1]]
    ELSE [st |-> "ok", a |-> a, node |-> EmptySlot]

\* Arena::hard_remove: panics when the slot is empty
hard_remove(a, idx) ==
    With(arena_remove(a, idx), LAMBDA r :
        IF r.st = "ok" /\ ~r.node.occ THEN [r EXCEPT !.st = "panic"] ELSE r)

\* ---- SgTree ----------------------------------------------------------------
SgTreeNew(cap) ==
    [arena |-> ArenaNew(cap), opt_root_idx |-> None, max_idx |-> 0, min_idx |-> 0,
     curr_size |-> 0, alpha_num |-> DEFAULT_ALPHA_NUM,
     alpha_denom |-> DEFAULT_ALPHA_DENOM, max_size |-> 0, rebal_cnt |-> 0]

\* arena[idx]; only used where is_occupied has been checked
At(t, idx) == t.arena.vec[idx + 1]
Occ(t, idx) == is_occupied(t.arena, idx)

set_left_idx(t, idx, c) == [t EXCEPT !.arena.vec[idx + 1].left_idx = c]
set_right_idx(t, idx, c) == [t EXCEPT !.arena.vec[idx + 1].right_idx = c]

len(t) == t.curr_size
capacity(t) == t.arena.cap
is_empty(t) == t.opt_root_idx = None

\* a NodeGetHelper
NodeGetHelper(node_idx, parent_idx, is_right_child) ==
    [node_idx |-> node_idx, parent_idx |-> parent_idx,
     is_right_child |-> is_right_child]

GetRes(st, ngh, path) == [st |-> st, ngh |-> ngh, path |-> path]

\* the descent loop of priv_get.  rec: a path sink was passed.  seen is the
\* number of nodes visited so far: without a sink a walk that visits more
\* nodes than the arena has slots is in a cycle and never returns; with a
\* sink the push on the full path panics first.
RECURSIVE priv_get_loop(_, _, _, _, _, _, _, _)
priv_get_loop(t, rec, key, curr_idx, opt_parent_idx, is_right_child, path, seen) ==
    IF ~Occ(t, curr_idx)
    THEN GetRes("panic", NodeGetHelper(None, None, FALSE), <<>>)
    ELSE IF rec /\ Len(path) >= capacity(t)
    THEN GetRes("panic", NodeGetHelper(None, None, FALSE), <<>>)
    ELSE IF ~rec /\ seen >= capacity(t)
    THEN GetRes("hang", NodeGetHelper(None, None, FALSE), <<>>)
    ELSE
      LET node == At(t, curr_idx)
      IN
      LET path2 == IF rec THEN Append(path, curr_idx) ELSE path
      IN
          IF key < node.key
          THEN IF node.left_idx # None
               THEN priv_get_loop(t, rec, key, node.left_idx, curr_idx, FALSE,
                                  path2, seen + 1)
               ELSE GetRes("ok", NodeGetHelper(None, None, FALSE), <<>>)
          ELSE IF key = node.key
          THEN GetRes("ok", NodeGetHelper(curr_idx, opt_parent_idx, is_right_child),
                      IF rec THEN Front(path2) ELSE path2)
          ELSE IF node.right_idx # None
               THEN priv_get_loop(t, rec, key, node.right_idx, curr_idx, TRUE,
                                  path2, seen + 1)
               ELSE GetRes("ok", NodeGetHelper(None, None, FALSE), <<>>)

priv_get(t, rec, key) ==
    IF t.opt_root_idx # None
    THEN priv_get_loop(t, rec, key, t.opt_root_idx, None, FALSE, <<>>, 0)
    ELSE GetRes("ok", NodeGetHelper(None, None, FALSE), <<>>)

\* ---- outcomes of the tree operations -----------------------------------
Ok(t, ret) == [st |-> "ok", t |-> t, ret |-> ret]
Abort(st, t) == [st |-> st, t |-> t, ret |-> None]


\* ---- insert ----------------------------------------------------------------
InsRes(st, t, opt_val, ngh, path) ==
    [st |-> st, t |-> t, opt_val |-> opt_val, ngh |-> ngh, path |-> path]

\* "Link to parent" and the counters, the tail of priv_insert
priv_insert_link_swapped(t, ngh) ==
    IF ngh.parent_idx # None
    THEN LET t1 == [t EXCEPT !.curr_size = @ + 1, !.max_size = @ + 1]
         IN
             IF ngh.is_right_child
             THEN set_left_idx(t1, ngh.parent_idx, ngh.node_idx)
             ELSE set_right_idx(t1, ngh.parent_idx, ngh.node_idx)
    ELSE t

priv_insert_link(t, ngh) ==
    IF ngh.parent_idx # None
    THEN LET t1 == [t EXCEPT !.curr_size = @ + 1, !.max_size = @ + 1]
         IN
             IF ngh.is_right_child
             THEN set_right_idx(t1, ngh.parent_idx, ngh.node_idx)
             ELSE set_left_idx(t1, ngh.parent_idx, ngh.node_idx)
    ELSE t

\* the traversal loop of priv_insert (tree not empty); every visited node is
\* pushed on the path, the node found equal included
RECURSIVE priv_insert_loop(_, _, _, _, _, _)
priv_insert_loop(t, path, key, ktag, val, curr_idx) ==
    IF ~Occ(t, curr_idx) \/ Len(path) >= capacity(t)
    THEN InsRes("panic", t, None, NodeGetHelper(None, None, FALSE), path)
    ELSE
      LET curr_node == At(t, curr_idx)
      IN
      LET path2 == Append(path, curr_idx)
      IN
          IF key < curr_node.key
          THEN IF curr_node.left_idx # None
               THEN priv_insert_loop(t, path2, key, ktag, val, curr_node.left_idx)
               ELSE IF ~Occ(t, t.min_idx)
               THEN InsRes("panic", t, None, NodeGetHelper(None, None, FALSE), path2)
               ELSE
                 LET new_min_found == key < At(t, t.min_idx).key
                 IN
                 With(arena_add(t.arena, key, ktag, val), LAMBDA r :
                 LET t1 == [t EXCEPT !.arena = r.a,
                                     !.min_idx = IF new_min_found THEN r.idx ELSE @]
                 IN
                 LET ngh == NodeGetHelper(r.idx, curr_idx, FALSE)
                 IN
                     IF r.st # "ok"
                     THEN InsRes(r.st, t, None, NodeGetHelper(None, None, FALSE), path2)
                     ELSE InsRes("ok", priv_insert_link(t1, ngh), None, ngh, path2))
          ELSE IF key = curr_node.key
          THEN LET t1 == [t EXCEPT !.arena.vec[curr_idx + 1].ktag = ktag,
                                   !.arena.vec[curr_idx + 1].val = val]
               IN
               LET ngh == NodeGetHelper(curr_idx, None, FALSE)
               IN
                   InsRes("ok", priv_insert_link(t1, ngh), curr_node.val, ngh, path2)
          ELSE IF curr_node.right_idx # None
               THEN priv_insert_loop(t, path2, key, ktag, val, curr_node.right_idx)
               ELSE IF ~Occ(t, t.max_idx)
               THEN InsRes("panic", t, None, NodeGetHelper(None, None, FALSE), path2)
               ELSE
                 LET new_max_found == key > At(t, t.max_idx).key
                 IN
                 With(arena_add(t.arena, key, ktag, val), LAMBDA r :
                 LET t1 == [t EXCEPT !.arena = r.a,
                                     !.max_idx = IF new_max_found THEN r.idx ELSE @]
                 IN
                 LET ngh == NodeGetHelper(r.idx, curr_idx, TRUE)
                 IN
                     IF r.st # "ok"
                     THEN InsRes(r.st, t, None, NodeGetHelper(None, None, FALSE), path2)
                     ELSE InsRes("ok", priv_insert_link(t1, ngh), None, ngh, path2))

priv_insert(t, key, ktag, val) ==
    IF t.opt_root_idx # None
    THEN priv_insert_loop(t, <<>>, key, ktag, val, t.opt_root_idx)
    ELSE With(arena_add(t.arena, key, ktag, val), LAMBDA r :
         LET t1 == [t EXCEPT !.curr_size = @ + 1, !.max_size = @ + 1,
                             !.arena = r.a, !.opt_root_idx = r.idx,
                             !.max_idx = r.idx, !.min_idx = r.idx]
         IN
             IF r.st # "ok"
             THEN InsRes(r.st, t, None, NodeGetHelper(None, None, FALSE), <<>>)
             ELSE InsRes("ok", t1, None, NodeGetHelper(r.idx, None, FALSE), <<>>))

\* ---- subtree size ----------------------------------------------------------
\* the worklist loop of get_subtree_size.  The worklist alone decides the
\* control flow, so a worklist seen before means the loop never ends.
RECURSIVE get_subtree_size_loop(_, _, _, _)
get_subtree_size_loop(t, subtree_worklist, subtree_size, seen) ==
    IF subtree_worklist = <<>> THEN [st |-> "ok", n |-> subtree_size]
    ELSE IF subtree_worklist \in seen THEN [st |-> "hang", n |-> 0]
    ELSE
      LET idx == Last(subtree_worklist)
      IN
      LET w0 == Front(subtree_worklist)
      IN
          IF ~Occ(t, idx) THEN [st |-> "panic", n |-> 0]
          ELSE
            LET node == At(t, idx)
            IN
            LET w1 == IF node.left_idx # None THEN Append(w0, node.left_idx) ELSE w0
            IN
            LET w2 == IF node.right_idx # None THEN Append(w1, node.right_idx) ELSE w1
            IN
                IF Len(w2) > capacity(t) THEN [st |-> "panic", n |-> 0]
                ELSE get_subtree_size_loop(t, w2, subtree_size + 1,
                                           seen \cup {subtree_worklist})

get_subtree_size(t, idx) == get_subtree_size_loop(t, <<idx>>, 0, {})

get_subtree_size_differential(t, parent_idx, child_idx, child_subtree_size) ==
    IF ~Occ(t, parent_idx) THEN [st |-> "panic", n |-> 0]
    ELSE
      LET parent == At(t, parent_idx)
      IN
      LET is_right_child == parent.right_idx # None /\ parent.right_idx = child_idx
      IN
      LET other_idx == IF is_right_child THEN parent.left_idx ELSE parent.right_idx
      IN
      With(IF other_idx # None THEN get_subtree_size(t, other_idx)
                   ELSE [st |-> "ok", n |-> 0], LAMBDA other :
          IF other.st # "ok" THEN other
          ELSE [st |-> "ok", n |-> child_subtree_size + other.n + 1])

\* ---- scapegoat search ------------------------------------------------------
\* path[i + 1] is the source's path[i]
\* the search that stops where the two sides are equal
RECURSIVE find_scapegoat_loop_strict(_, _, _, _, _)
find_scapegoat_loop_strict(t, path, node_subtree_size, parent_path_idx, parent_subtree_size) ==
    IF parent_path_idx > 0
       /\ t.alpha_denom * node_subtree_size < t.alpha_num * parent_subtree_size
    THEN With(get_subtree_size_differential(t, path[parent_path_idx],
                                                path[parent_path_idx + 1],
                                                parent_subtree_size), LAMBDA d :
             IF d.st # "ok" THEN [st |-> d.st, idx |-> None]
             ELSE find_scapegoat_loop_strict(t, path, parent_subtree_size,
                                             parent_path_idx - 1, d.n))
    ELSE [st |-> "ok", idx |-> path[parent_path_idx + 1]]

RECURSIVE find_scapegoat_loop(_, _, _, _, _)
find_scapegoat_loop(t, path, node_subtree_size, parent_path_idx, parent_subtree_size) ==
    IF parent_path_idx > 0
       /\ t.alpha_denom * node_subtree_size <= t.alpha_num * parent_subtree_size
    THEN With(get_subtree_size_differential(t, path[parent_path_idx],
                                                path[parent_path_idx + 1],
                                                parent_subtree_size), LAMBDA d :
             IF d.st # "ok" THEN [st |-> d.st, idx |-> None]
             ELSE find_scapegoat_loop(t, path, parent_subtree_size,
                                      parent_path_idx - 1, d.n))
    ELSE [st |-> "ok", idx |-> path[parent_path_idx + 1]]

\* the search that gives up on every path
find_scapegoat_never(t, path) ==
    IF Len(path) >= 1 THEN [st |-> "ok", idx |-> None]
    ELSE With(get_subtree_size(t, Last(path)), LAMBDA s :
             IF s.st # "ok" THEN [st |-> s.st, idx |-> None]
             ELSE find_scapegoat_loop(t, path, 1, Len(path) - 1, s.n))

find_scapegoat(t, path) ==
    IF Len(path) <= 1 THEN [st |-> "ok", idx |-> None]
    ELSE With(get_subtree_size(t, Last(path)), LAMBDA s :
             IF s.st # "ok" THEN [st |-> s.st, idx |-> None]
             ELSE find_scapegoat_loop(t, path, 1, Len(path) - 1, s.n))

\* floor(log base (alpha_denom/alpha_num) of val) as usize: the largest d
\* with (alpha_denom/alpha_num)^d <= val; the float-to-usize cast of the
\* -inf that log gives for val = 0 saturates to 0
RECURSIVE log_floor(_, _, _, _)
log_floor(val, num, denom, d) ==
    IF denom ^ (d + 1) <= val * num ^ (d + 1)
    THEN log_floor(val, num, denom, d + 1)
    ELSE d

alpha_balance_depth(t, val) ==
    IF val <= 0 THEN 0 ELSE log_floor(val, t.alpha_num, t.alpha_denom, 0)


\* ---- rebuild ---------------------------------------------------------------
\* the worklist loop of flatten_subtree_to_sorted_idxs; both vectors have
\* capacity N and subtree_flattened only grows, so the loop ends or panics
RECURSIVE flatten_loop(_, _, _)
flatten_loop(t, subtree_worklist, subtree_flattened) ==
    IF subtree_worklist = <<>> THEN [st |-> "ok", idxs |-> subtree_flattened]
    ELSE
      LET idx == Last(subtree_worklist)
      IN
      LET w0 == Front(subtree_worklist)
      IN
          IF ~Occ(t, idx) THEN [st |-> "panic", idxs |-> <<>>]
          ELSE
            LET node == At(t, idx)
            IN
            LET w1 == IF node.left_idx # None THEN Append(w0, node.left_idx) ELSE w0
            IN
            LET f1 == IF node.left_idx # None
                      THEN Append(subtree_flattened, node.left_idx)
                      ELSE subtree_flattened
            IN
            LET w2 == IF node.right_idx # None THEN Append(w1, node.right_idx) ELSE w1
            IN
            LET f2 == IF node.right_idx # None THEN Append(f1, node.right_idx) ELSE f1
            IN
                IF Len(w2) > capacity(t) \/ Len(f2) > capacity(t) THEN [st |-> "panic", idxs |-> <<>>]
                ELSE flatten_loop(t, w2, f2)

\* sort_unstable_by on the keys of the indexed nodes (insertion sort: the
\* order of equal keys is the order found)
RECURSIVE InsertByKey(_, _, _)
InsertByKey(t, sorted, idx) ==
    IF sorted = <<>> THEN <<idx>>
    ELSE IF At(t, Last(sorted)).key <= At(t, idx).key THEN Append(sorted, idx)
    ELSE Append(InsertByKey(t, Front(sorted), idx), Last(sorted))

RECURSIVE SortByKey(_, _)
SortByKey(t, idxs) ==
    IF idxs = <<>> THEN <<>>
    ELSE InsertByKey(t, SortByKey(t, Front(idxs)), Last(idxs))

flatten_subtree_to_sorted_idxs(t, idx) ==
    With(flatten_loop(t, <<idx>>, <<idx>>), LAMBDA f :
        IF f.st # "ok" THEN f
        ELSE [st |-> "ok", idxs |-> SortByKey(t, f.idxs)])

\* NodeRebuildHelper::new
NodeRebuildHelper(low_idx, high_idx) ==
    [low_idx |-> low_idx, high_idx |-> high_idx,
     mid_idx |-> low_idx + ((high_idx - low_idx) \div 2)]

\* "Iteratively re-assign all children": the worklist holds the helpers (the
\* sorted index pushed with each is its mid_idx); sorted_arena_idxs[i + 1] is
\* the source's sorted_arena_idxs[i]
RECURSIVE reassign_children(_, _, _)
reassign_children(t, sorted_arena_idxs, subtree_worklist) ==
    IF subtree_worklist = <<>> THEN t
    ELSE
      LET parent_nrh == Last(subtree_worklist)
      IN
      LET w0 == Front(subtree_worklist)
      IN
      LET parent_idx == sorted_arena_idxs[parent_nrh.mid_idx + 1]
      IN
      LET t0 == set_right_idx(set_left_idx(t, parent_idx, None), parent_idx, None)
      IN
      LET has_left == parent_nrh.low_idx < parent_nrh.mid_idx
      IN
      LET left_nrh == NodeRebuildHelper(parent_nrh.low_idx, parent_nrh.mid_idx - 1)
      IN
      LET t1 == IF has_left
                THEN set_left_idx(t0, parent_idx, sorted_arena_idxs[left_nrh.mid_idx + 1])
                ELSE t0
      IN
      LET w1 == IF has_left THEN Append(w0, left_nrh) ELSE w0
      IN
      LET has_right == parent_nrh.mid_idx < parent_nrh.high_idx
      IN
      LET right_nrh == NodeRebuildHelper(parent_nrh.mid_idx + 1, parent_nrh.high_idx)
      IN
      LET t2 == IF has_right
                THEN set_right_idx(t1, parent_idx, sorted_arena_idxs[right_nrh.mid_idx + 1])
                ELSE t1
      IN
      LET w2 == IF has_right THEN Append(w1, right_nrh) ELSE w1
      IN
          reassign_children(t2, sorted_arena_idxs, w2)

\* "Update tree root or subtree parent", the first half of
\* rebalance_subtree_from_sorted_idxs
rebalance_reparent(t, old_subtree_root_idx, sorted_arena_idxs, subtree_root_arena_idx) ==
    IF t.opt_root_idx = None THEN Ok(t, None)
    ELSE IF Contains(sorted_arena_idxs, t.opt_root_idx)
    THEN Ok([t EXCEPT !.opt_root_idx = subtree_root_arena_idx], None)
    ELSE IF ~Occ(t, old_subtree_root_idx) THEN Abort("panic", t)
    ELSE
      With(priv_get(t, FALSE, At(t, old_subtree_root_idx).key), LAMBDA g :
          IF g.st # "ok" THEN Abort(g.st, t)
          ELSE IF g.ngh.parent_idx = None THEN Ok(t, None)
          ELSE IF g.ngh.is_right_child
          THEN Ok(set_right_idx(t, g.ngh.parent_idx, subtree_root_arena_idx), None)
          ELSE Ok(set_left_idx(t, g.ngh.parent_idx, subtree_root_arena_idx), None))

rebalance_subtree_from_sorted_idxs(t, old_subtree_root_idx, sorted_arena_idxs) ==
    IF Len(sorted_arena_idxs) <= 1 THEN Ok(t, None)
    ELSE
      LET sorted_last_idx == Len(sorted_arena_idxs) - 1
      IN
      LET subtree_root_sorted_idx == sorted_last_idx \div 2
      IN
      LET subtree_root_arena_idx == sorted_arena_idxs[subtree_root_sorted_idx + 1]
      IN
      With(rebalance_reparent(t, old_subtree_root_idx, sorted_arena_idxs,
                                  subtree_root_arena_idx), LAMBDA r :
          IF r.st # "ok" THEN r
          ELSE Ok(reassign_children(r.t, sorted_arena_idxs,
                                    <<NodeRebuildHelper(0, sorted_last_idx)>>), None))

rebuild(t, idx) ==
    With(flatten_subtree_to_sorted_idxs(t, idx), LAMBDA f :
    With(rebalance_subtree_from_sorted_idxs(t, idx, f.idxs), LAMBDA r :
        IF f.st # "ok" THEN Abort(f.st, t)
        ELSE IF r.st # "ok" THEN r
        ELSE Ok([r.t EXCEPT !.rebal_cnt = @ + 1], None)))

\* priv_balancing_insert; ret is the old value
\* the insertion that already rebuilds at the depth limit
priv_balancing_insert_eager(t, key, ktag, val) ==
    With(priv_insert(t, key, ktag, val), LAMBDA i :
        IF i.st # "ok" THEN Abort(i.st, t)
        ELSE IF Len(i.path) >= alpha_balance_depth(i.t, i.t.max_size)
        THEN With(find_scapegoat(i.t, i.path), LAMBDA s :
                 IF s.st # "ok" THEN Abort(s.st, t)
                 ELSE IF s.idx = None THEN Ok(i.t, i.opt_val)
                 ELSE With(rebuild(i.t, s.idx), LAMBDA r :
                          IF r.st # "ok" THEN Abort(r.st, t)
                          ELSE Ok(r.t, i.opt_val)))
        ELSE Ok(i.t, i.opt_val))

priv_balancing_insert(t, key, ktag, val) ==
    With(priv_insert(t, key, ktag, val), LAMBDA i :
        IF i.st # "ok" THEN Abort(i.st, t)
        ELSE IF Len(i.path) > alpha_balance_depth(i.t, i.t.max_size)
        THEN With(find_scapegoat(i.t, i.path), LAMBDA s :
                 IF s.st # "ok" THEN Abort(s.st, t)
                 ELSE IF s.idx = None THEN Ok(i.t, i.opt_val)
                 ELSE With(rebuild(i.t, s.idx), LAMBDA r :
                          IF r.st # "ok" THEN Abort(r.st, t)
                          ELSE Ok(r.t, i.opt_val)))
        ELSE Ok(i.t, i.opt_val))

insert(t, key, ktag, val) == priv_balancing_insert(t, key, ktag, val)


\* ---- remove ----------------------------------------------------------------
\* the leftmost walk of update_min_idx / the rightmost walk of update_max_idx;
\* a walk longer than the arena is in a cycle
RECURSIVE leftmost(_, _, _)
leftmost(t, curr_idx, seen) ==
    IF ~Occ(t, curr_idx) THEN [st |-> "panic", idx |-> None]
    ELSE IF seen >= capacity(t) THEN [st |-> "hang", idx |-> None]
    ELSE IF At(t, curr_idx).left_idx # None
         THEN leftmost(t, At(t, curr_idx).left_idx, seen + 1)
         ELSE [st |-> "ok", idx |-> curr_idx]

RECURSIVE rightmost(_, _, _)
rightmost(t, curr_idx, seen) ==
    IF ~Occ(t, curr_idx) THEN [st |-> "panic", idx |-> None]
    ELSE IF seen >= capacity(t) THEN [st |-> "hang", idx |-> None]
    ELSE IF At(t, curr_idx).right_idx # None
         THEN rightmost(t, At(t, curr_idx).right_idx, seen + 1)
         ELSE [st |-> "ok", idx |-> curr_idx]

update_min_idx(t) ==
    IF t.opt_root_idx # None
    THEN With(leftmost(t, t.opt_root_idx, 0), LAMBDA w :
             IF w.st # "ok" THEN Abort(w.st, t)
             ELSE Ok([t EXCEPT !.min_idx = w.idx], None))
    ELSE Ok([t EXCEPT !.min_idx = 0], None)

update_max_idx(t) ==
    IF t.opt_root_idx # None
    THEN With(rightmost(t, t.opt_root_idx, 0), LAMBDA w :
             IF w.st # "ok" THEN Abort(w.st, t)
             ELSE Ok([t EXCEPT !.max_idx = w.idx], None))
    ELSE Ok([t EXCEPT !.max_idx = 0], None)

\* "Continue search for min node": the two assignments of the Some(lt_idx)
\* arm, in the order the source has them (min_idx first, so that
\* min_parent_idx is assigned the new min_idx)
min_search_step(min_idx, lt_idx) ==
    LET new_min_idx == lt_idx
    IN
        [min_idx |-> new_min_idx, min_parent_idx |-> new_min_idx]

\* the successor search of the two-children case; returns the tree with the
\* min node unlinked, min_idx and the (maybe rewritten) right index of the
\* node to remove
RECURSIVE min_search_loop(_, _, _, _, _, _)
min_search_loop(t, node_idx, node_to_remove_right_idx, min_idx, min_parent_idx, seen) ==
    IF ~Occ(t, min_idx)
    THEN [st |-> "panic", t |-> t, min_idx |-> None, right_idx |-> None]
    ELSE IF seen >= capacity(t)
    THEN [st |-> "hang", t |-> t, min_idx |-> None, right_idx |-> None]
    ELSE
      LET min_node == At(t, min_idx)
      IN
          IF min_node.left_idx # None
          THEN With(min_search_step(min_idx, min_node.left_idx), LAMBDA n :
                   min_search_loop(t, node_idx, node_to_remove_right_idx,
                                   n.min_idx, n.min_parent_idx, seen + 1))
          ELSE LET unlink_new_child == min_node.right_idx
               IN
                   IF min_parent_idx = node_idx
                   THEN [st |-> "ok", t |-> t, min_idx |-> min_idx,
                         right_idx |-> unlink_new_child]
                   ELSE IF ~Occ(t, min_parent_idx)
                   THEN [st |-> "panic", t |-> t, min_idx |-> None, right_idx |-> None]
                   ELSE [st |-> "ok",
                         t |-> set_left_idx(t, min_parent_idx, unlink_new_child),
                         min_idx |-> min_idx,
                         right_idx |-> node_to_remove_right_idx]

\* the match on the children of the node to remove: the tree after the
\* re-linking and the new child of the parent
remove_relink(t, node_idx) ==
    LET node_to_remove == At(t, node_idx)
    IN
    LET l == node_to_remove.left_idx
    IN
    LET r == node_to_remove.right_idx
    IN
        IF l = None /\ r = None THEN [st |-> "ok", t |-> t, new_child |-> None]
        ELSE IF r = None THEN [st |-> "ok", t |-> t, new_child |-> l]
        ELSE IF l = None THEN [st |-> "ok", t |-> t, new_child |-> r]
        ELSE With(min_search_loop(t, node_idx, r, r, node_idx, 0), LAMBDA m :
                 IF m.st # "ok" THEN [st |-> m.st, t |-> t, new_child |-> None]
                 ELSE [st |-> "ok",
                       t |-> set_left_idx(set_right_idx(m.t, m.min_idx, m.right_idx),
                                          m.min_idx, l),
                       new_child |-> m.min_idx])

\* "Update min/max" after the removal
remove_update_min_max(t, node_idx) ==
    IF node_idx = t.min_idx THEN update_min_idx(t)
    ELSE IF node_idx = t.max_idx THEN update_max_idx(t)
    ELSE Ok(t, None)

\* priv_remove; ret is the removed node (its key, ktag and val), an empty
\* slot for the None of a miss
priv_remove(t, ngh) ==
    IF ngh.node_idx = None THEN Ok(t, EmptySlot)
    ELSE IF ~Occ(t, ngh.node_idx) THEN Abort("panic", t)
    ELSE
      LET node_idx == ngh.node_idx
      IN
      With(remove_relink(t, node_idx), LAMBDA c :
      LET t1 == IF ngh.parent_idx # None
                THEN IF ngh.is_right_child
                     THEN set_right_idx(c.t, ngh.parent_idx, c.new_child)
                     ELSE set_left_idx(c.t, ngh.parent_idx, c.new_child)
                ELSE [c.t EXCEPT !.opt_root_idx = c.new_child]
      IN
      With(hard_remove(t1.arena, node_idx), LAMBDA h :
      LET t2 == [t1 EXCEPT !.arena = h.a, !.curr_size = @ - 1]
      IN
      With(remove_update_min_max(t2, node_idx), LAMBDA u :
          IF c.st # "ok" THEN Abort(c.st, t)
          ELSE IF ngh.parent_idx # None /\ ~Occ(c.t, ngh.parent_idx) THEN Abort("panic", t)
          ELSE IF h.st # "ok" THEN Abort(h.st, t)
          ELSE IF u.st # "ok" THEN Abort(u.st, t)
          ELSE Ok(u.t, h.node))))

priv_remove_by_key(t, key) ==
    With(priv_get(t, FALSE, key), LAMBDA g :
        IF g.st # "ok" THEN Abort(g.st, t) ELSE priv_remove(t, g.ngh))

priv_remove_by_idx(t, idx) ==
    IF is_occupied(t.arena, idx)
    THEN With(priv_get(t, FALSE, At(t, idx).key), LAMBDA g :
             IF g.st # "ok" THEN Abort(g.st, t) ELSE priv_remove(t, g.ngh))
    ELSE Ok(t, EmptySlot)

\* the assignment that follows the rebuild in remove_entry
reset_max_size(t) == [t EXCEPT !.max_size = t.curr_size]

\* remove_entry after the rebuild b of the whole tree
remove_entry_rebuilt(t, r, b) ==
    IF b.st # "ok" THEN Abort(b.st, t) ELSE Ok(reset_max_size(b.t), r.ret)

\* remove_entry after the removal r: "Potential rebalance"
remove_entry_check(t, r) ==
    IF r.st # "ok" \/ ~r.ret.occ THEN r
    ELSE IF r.t.max_size > 2 * r.t.curr_size /\ r.t.opt_root_idx # None
    THEN remove_entry_rebuilt(t, r, rebuild(r.t, r.t.opt_root_idx))
    ELSE r

remove_entry(t, key) == remove_entry_check(t, priv_remove_by_key(t, key))

\* the map of remove over the entry r: the removed value, None on a miss
remove_ret(r) ==
    IF r.st # "ok" THEN r
    ELSE IF ~r.ret.occ THEN Ok(r.t, None) ELSE Ok(r.t, r.ret.val)

remove(t, key) == remove_ret(remove_entry(t, key))

\* ---- lookup ----------------------------------------------------------------
\* get_key_value: ret is the found node, an empty slot for None
get_key_value(t, key) ==
    With(priv_get(t, FALSE, key), LAMBDA g :
        IF g.st # "ok" THEN Abort(g.st, t)
        ELSE IF g.ngh.node_idx = None THEN Ok(t, EmptySlot)
        ELSE Ok(t, At(t, g.ngh.node_idx)))

get(t, key) ==
    With(get_key_value(t, key), LAMBDA r :
        IF r.st # "ok" THEN r
        ELSE IF ~r.ret.occ THEN Ok(t, None) ELSE Ok(t, r.ret.val))

\* contains_key: ret is a boolean when st is "ok"
contains_key(t, key) ==
    With(get(t, key), LAMBDA r :
        IF r.st # "ok" THEN [st |-> r.st, t |-> t, ret |-> FALSE]
        ELSE [st |-> "ok", t |-> t, ret |-> r.ret # None])


\* ---- first / last --------------------------------------------------------
\* first_key_value / last_key_value: ret is the node, an empty slot for None
first_key_value(t) ==
    IF ~is_empty(t)
    THEN IF ~Occ(t, t.min_idx) THEN Abort("panic", t) ELSE Ok(t, At(t, t.min_idx))
    ELSE Ok(t, EmptySlot)

last_key_value(t) ==
    IF ~is_empty(t)
    THEN IF ~Occ(t, t.max_idx) THEN Abort("panic", t) ELSE Ok(t, At(t, t.max_idx))
    ELSE Ok(t, EmptySlot)

pop_first(t) == priv_remove_by_idx(t, t.min_idx)
pop_last(t) == priv_remove_by_idx(t, t.max_idx)

\* clear
clear(t) ==
    IF ~is_empty(t)
    THEN [SgTreeNew(capacity(t)) EXCEPT !.rebal_cnt = t.rebal_cnt]
    ELSE t

\* ---- try_insert ------------------------------------------------------------
\* ret of a fallible call that returns Err
StackCapacityExceeded == -2
MaximumCapacityExceeded == -3

try_insert(t, key, ktag, val) ==
    With(contains_key(t, key), LAMBDA c :
        IF c.st # "ok" THEN Abort(c.st, t)
        ELSE IF c.ret \/ capacity(t) > len(t)
        THEN priv_balancing_insert(t, key, ktag, val)
        ELSE Ok(t, StackCapacityExceeded))

\* ---- Iter ------------------------------------------------------------------
\* the loops of Iter::new and Iter::next that push a left spine
RECURSIVE push_left_spine(_, _, _)
push_left_spine(t, idx_stack, curr_idx) ==
    IF ~Occ(t, curr_idx) \/ Len(idx_stack) >= capacity(t)
    THEN [st |-> "panic", idx_stack |-> <<>>]
    ELSE IF At(t, curr_idx).left_idx # None
         THEN push_left_spine(t, Append(idx_stack, curr_idx), At(t, curr_idx).left_idx)
         ELSE [st |-> "ok", idx_stack |-> Append(idx_stack, curr_idx)]

IterOf(st, idx_stack, total_cnt, spent_cnt) ==
    [st |-> st, idx_stack |-> idx_stack, total_cnt |-> total_cnt,
     spent_cnt |-> spent_cnt]

iter_new(t) ==
    IF t.opt_root_idx # None
    THEN With(push_left_spine(t, <<>>, t.opt_root_idx), LAMBDA p :
             IterOf(p.st, p.idx_stack, len(t), 0))
    ELSE IterOf("ok", <<>>, len(t), 0)

\* Iter::next: item is the node yielded, an empty slot for None
iter_next(t, it) ==
    IF it.idx_stack = <<>> THEN [st |-> "ok", it |-> it, item |-> EmptySlot]
    ELSE
      LET pop_idx == Last(it.idx_stack)
      IN
      LET s0 == Front(it.idx_stack)
      IN
          IF ~Occ(t, pop_idx) THEN [st |-> "panic", it |-> it, item |-> EmptySlot]
          ELSE
            LET node == At(t, pop_idx)
            IN
            With(IF node.right_idx # None
                     THEN push_left_spine(t, s0, node.right_idx)
                     ELSE [st |-> "ok", idx_stack |-> s0], LAMBDA p :
                IF p.st # "ok" THEN [st |-> p.st, it |-> it, item |-> EmptySlot]
                ELSE [st |-> "ok",
                      it |-> IterOf("ok", p.idx_stack, it.total_cnt, it.spent_cnt + 1),
                      item |-> node])

\* a loop that drains the iterator.  limit is the capacity of the vector the
\* consumer pushes every item on (None: it pushes on nothing).  The stack
\* alone decides what next() does, so a stack seen before means the
\* iteration never ends (and a consumer that pushes overflows).
RECURSIVE iter_drain(_, _, _, _, _)
iter_drain(t, it, items, seen, limit) ==
    IF it.idx_stack \in seen
    THEN [st |-> IF limit # None THEN "panic" ELSE "hang", items |-> <<>>]
    ELSE With(iter_next(t, it), LAMBDA n :
             IF n.st # "ok" THEN [st |-> n.st, items |-> <<>>]
             ELSE IF ~n.item.occ THEN [st |-> "ok", items |-> items]
             ELSE IF limit # None /\ Len(items) >= limit
             THEN [st |-> "panic", items |-> <<>>]
             ELSE iter_drain(t, n.it, Append(items, n.item),
                             seen \cup {it.idx_stack}, limit))

\* the items of `for (k, v) in tree.iter()`
iter_items(t, limit) ==
    With(iter_new(t), LAMBDA it :
        IF it.st # "ok" THEN [st |-> it.st, items |-> <<>>]
        ELSE iter_drain(t, it, <<>>, {}, limit))

\* ---- swap-history cache ----------------------------------------------------
\* history: a sequence of [orig, curr]
known_pos(history, pos) == \E i \in 1..Len(history) : history[i].curr = pos

\* the add whose second test is not an else: an entry moved to pos_2 is
\* moved back at once
swap_hist_add_no_else(history, pos_1, pos_2, cap) ==
    LET upd == [i \in 1..Len(history) |->
                  IF history[i].curr = pos_1 \/ history[i].curr = pos_2
                  THEN [history[i] EXCEPT !.curr = pos_1]
                  ELSE history[i]]
    IN
    LET h1 == IF ~known_pos(history, pos_1)
              THEN Append(upd, [orig |-> pos_1, curr |-> pos_2]) ELSE upd
    IN
    LET h2 == IF ~known_pos(history, pos_2)
              THEN Append(h1, [orig |-> pos_2, curr |-> pos_1]) ELSE h1
    IN
        [st |-> IF Len(h2) > cap THEN "panic" ELSE "ok", history |-> h2]

\* NodeSwapHistHelper::add; the history has capacity cap
swap_hist_add(history, pos_1, pos_2, cap) ==
    LET upd == [i \in 1..Len(history) |->
                  IF history[i].curr = pos_1 THEN [history[i] EXCEPT !.curr = pos_2]
                  ELSE IF history[i].curr = pos_2 THEN [history[i] EXCEPT !.curr = pos_1]
                  ELSE history[i]]
    IN
    LET h1 == IF ~known_pos(history, pos_1)
              THEN Append(upd, [orig |-> pos_1, curr |-> pos_2]) ELSE upd
    IN
    LET h2 == IF ~known_pos(history, pos_2)
              THEN Append(h1, [orig |-> pos_2, curr |-> pos_1]) ELSE h1
    IN
        [st |-> IF Len(h2) > cap THEN "panic" ELSE "ok", history |-> h2]

\* NodeSwapHistHelper::curr_idx: the first entry of orig_pos, else orig_pos
swap_hist_curr_idx(history, orig_pos) ==
    IF \E i \in 1..Len(history) : history[i].orig = orig_pos
    THEN history[CHOOSE i \in 1..Len(history) :
                   /\ history[i].orig = orig_pos
                   /\ \A j \in 1..(i - 1) : history[j].orig # orig_pos].curr
    ELSE orig_pos

\* ---- Arena::sort -----------------------------------------------------------
\* the free-list rewrite inside the swap loop
free_list_rewrite_skipped(free_list, old_free_idx, new_free_idx) ==
    [i \in 1..Len(free_list) |-> free_list[i]]

free_list_rewrite(free_list, old_free_idx, new_free_idx) ==
    [i \in 1..Len(free_list) |->
        IF free_list[i] = old_free_idx THEN new_free_idx ELSE free_list[i]]

\* "Sort as requested": sort_metadata[k] goes to slot k - 1
RECURSIVE arena_sort_swaps(_, _, _, _)
arena_sort_swaps(a, sort_metadata, k, history) ==
    IF k > Len(sort_metadata) THEN [st |-> "ok", a |-> a, history |-> history]
    ELSE
      LET sorted_idx == k - 1
      IN
      With(swap_hist_curr_idx(history, sort_metadata[k].node_idx), LAMBDA curr_idx :
          IF curr_idx = sorted_idx
          THEN arena_sort_swaps(a, sort_metadata, k + 1, history)
          ELSE IF curr_idx >= Len(a.vec) \/ sorted_idx >= Len(a.vec)
          THEN [st |-> "panic", a |-> a, history |-> history]
          ELSE
            With(swap_hist_add(history, curr_idx, sorted_idx, a.cap), LAMBDA h :
            With([a EXCEPT
                         !.vec[curr_idx + 1] = a.vec[sorted_idx + 1],
                         !.vec[sorted_idx + 1] = a.vec[curr_idx + 1],
                         !.free_list = free_list_rewrite(@, sorted_idx, curr_idx)], LAMBDA a1 :
                IF h.st # "ok" THEN [st |-> "panic", a |-> a, history |-> history]
                ELSE arena_sort_swaps(a1, sort_metadata, k + 1, h.history))))

\* "Update all parent-child relationships"
RECURSIVE arena_sort_links(_, _, _, _)
arena_sort_links(a, sort_metadata, k, history) ==
    IF k > Len(sort_metadata) THEN [st |-> "ok", a |-> a]
    ELSE
      LET ngh == sort_metadata[k]
      IN
          IF ngh.parent_idx = None
          THEN arena_sort_links(a, sort_metadata, k + 1, history)
          ELSE
            With(swap_hist_curr_idx(history, ngh.parent_idx), LAMBDA curr_parent_idx :
            With(swap_hist_curr_idx(history, ngh.node_idx), LAMBDA curr_child_idx :
                IF ~is_occupied(a, curr_parent_idx) THEN [st |-> "panic", a |-> a]
                ELSE arena_sort_links(
                       IF ngh.is_right_child
                       THEN [a EXCEPT !.vec[curr_parent_idx + 1].right_idx = curr_child_idx]
                       ELSE [a EXCEPT !.vec[curr_parent_idx + 1].left_idx = curr_child_idx],
                       sort_metadata, k + 1, history)))

\* Arena::sort: idx is the new root index
arena_sort(a, root_idx, sort_metadata) ==
    With(arena_sort_swaps(a, sort_metadata, 1, <<>>), LAMBDA s :
    With(arena_sort_links(s.a, sort_metadata, 1, s.history), LAMBDA l :
        IF s.st # "ok" THEN [st |-> s.st, a |-> a, idx |-> None]
        ELSE IF l.st # "ok" THEN [st |-> l.st, a |-> a, idx |-> None]
        ELSE [st |-> "ok", a |-> l.a, idx |-> swap_hist_curr_idx(s.history, root_idx)]))

\* ---- sort_arena ------------------------------------------------------------
\* the retrieval helper of every occupied slot, in slot order
RECURSIVE collect_sort_metadata(_, _, _)
collect_sort_metadata(t, idx, acc) ==
    IF idx >= Len(t.arena.vec) THEN [st |-> "ok", meta |-> acc]
    ELSE IF ~Occ(t, idx) THEN collect_sort_metadata(t, idx + 1, acc)
    ELSE With(priv_get(t, FALSE, At(t, idx).key), LAMBDA g :
             IF g.st # "ok" THEN [st |-> g.st, meta |-> <<>>]
             ELSE collect_sort_metadata(t, idx + 1, Append(acc, g.ngh)))

\* sort_unstable_by_key on the key of the node each helper found
RECURSIVE InsertNghByKey(_, _, _)
InsertNghByKey(t, sorted, ngh) ==
    IF sorted = <<>> THEN <<ngh>>
    ELSE IF At(t, Last(sorted).node_idx).key <= At(t, ngh.node_idx).key
    THEN Append(sorted, ngh)
    ELSE Append(InsertNghByKey(t, Front(sorted), ngh), Last(sorted))

RECURSIVE SortNghByKey(_, _)
SortNghByKey(t, meta) ==
    IF meta = <<>> THEN <<>>
    ELSE InsertNghByKey(t, SortNghByKey(t, Front(meta)), Last(meta))

sort_arena(t) ==
    IF t.opt_root_idx = None THEN Ok(t, None)
    ELSE
      With(collect_sort_metadata(t, 0, <<>>), LAMBDA c :
      With(arena_sort(t.arena, t.opt_root_idx, SortNghByKey(t, c.meta)), LAMBDA s :
      LET t1 == [t EXCEPT !.arena = s.a, !.opt_root_idx = s.idx]
      IN
      With(update_max_idx(t1), LAMBDA u1 :
      With(update_min_idx(u1.t), LAMBDA u2 :
          IF c.st # "ok" THEN Abort(c.st, t)
          ELSE IF \E i \in 1..Len(c.meta) : c.meta[i].node_idx = None
          THEN Abort("panic", t)
          ELSE IF s.st # "ok" THEN Abort(s.st, t)
          ELSE IF u1.st # "ok" THEN Abort(u1.st, t)
          ELSE IF u2.st # "ok" THEN Abort(u2.st, t)
          ELSE Ok(u2.t, None)))))

\* ---- IterMut ---------------------------------------------------------------
\* the slots IterMut::next yields: from slot 0 up to the first empty one
RECURSIVE occupied_prefix(_, _)
occupied_prefix(vec, k) ==
    IF k > Len(vec) \/ ~vec[k].occ THEN <<>>
    ELSE <<vec[k]>> \o occupied_prefix(vec, k + 1)

\* IterMut::new and the items it then yields; t is the tree it sorted
iter_mut_items(t) ==
    With(sort_arena(t), LAMBDA s :
        IF s.st # "ok" THEN [st |-> s.st, t |-> t, items |-> <<>>]
        ELSE [st |-> "ok", t |-> s.t, items |-> occupied_prefix(s.t.arena.vec, 1)])

\* ---- ExactSizeIterator, IntoIter ---------------------------------------------
\* ExactSizeIterator for Iter: total_cnt - spent_cnt; the debug_assert (and
\* the subtraction) fails when more items were yielded than len() told
iter_len(it) ==
    IF it.spent_cnt > it.total_cnt THEN [st |-> "panic", n |-> 0]
    ELSE [st |-> "ok", n |-> it.total_cnt - it.spent_cnt]

\* what len() returns before each call of next(), up to the call that
\* returns None
RECURSIVE iter_lens_loop(_, _, _, _)
iter_lens_loop(t, it, lens, seen) ==
    IF it.idx_stack \in seen THEN [st |-> "hang", lens |-> lens]
    ELSE IF iter_len(it).st # "ok" THEN [st |-> "panic", lens |-> lens]
    ELSE With(iter_next(t, it), LAMBDA n :
             IF n.st # "ok" THEN [st |-> n.st, lens |-> lens]
             ELSE IF ~n.item.occ
             THEN [st |-> "ok", lens |-> Append(lens, iter_len(it).n)]
             ELSE iter_lens_loop(t, n.it, Append(lens, iter_len(it).n),
                                 seen \cup {it.idx_stack}))

iter_lens(t) ==
    With(iter_new(t), LAMBDA it :
        IF it.st # "ok" THEN [st |-> it.st, lens |-> <<>>]
        ELSE iter_lens_loop(t, it, <<>>, {}))

\* IterMut: the slice iterator over the arena of the sorted tree t, pos slots
\* of which it has passed
iter_mut_new(t) ==
    With(sort_arena(t), LAMBDA s :
        IF s.st # "ok" THEN [st |-> s.st, t |-> t, pos |-> 0]
        ELSE [st |-> "ok", t |-> s.t, pos |-> 0])

\* IterMut::next: the slice iterator steps over the slot it reads, an empty
\* one included; item is the node yielded, an empty slot for None
iter_mut_next(it) ==
    IF it.pos >= Len(it.t.arena.vec) THEN [it |-> it, item |-> EmptySlot]
    ELSE [it |-> [it EXCEPT !.pos = @ + 1], item |-> it.t.arena.vec[it.pos + 1]]

\* ExactSizeIterator for IterMut: the slots the slice iterator has left
iter_mut_len(it) == Len(it.t.arena.vec) - it.pos

RECURSIVE iter_mut_lens_loop(_, _)
iter_mut_lens_loop(it, lens) ==
    With(iter_mut_next(it), LAMBDA n :
        IF ~n.item.occ THEN Append(lens, iter_mut_len(it))
        ELSE iter_mut_lens_loop(n.it, Append(lens, iter_mut_len(it))))

iter_mut_lens(t) ==
    With(iter_mut_new(t), LAMBDA it :
        IF it.st # "ok" THEN [st |-> it.st, lens |-> <<>>]
        ELSE [st |-> "ok", lens |-> iter_mut_lens_loop(it, <<>>)])

\* IntoIter::new: bst is the tree it owns
into_iter_new(t) ==
    IF t.opt_root_idx # None
    THEN With(flatten_subtree_to_sorted_idxs(t, t.opt_root_idx), LAMBDA f :
             [st |-> f.st, bst |-> t, sorted_idxs |-> Reverse(f.idxs)])
    ELSE [st |-> "ok", bst |-> t, sorted_idxs |-> <<>>]

\* IntoIter::next: item is the node removed, an empty slot for None
into_iter_next(it) ==
    IF it.sorted_idxs = <<>> THEN [st |-> "ok", it |-> it, item |-> EmptySlot]
    ELSE With(priv_remove_by_idx(it.bst, Last(it.sorted_idxs)), LAMBDA r :
             IF r.st # "ok" THEN [st |-> r.st, it |-> it, item |-> EmptySlot]
             ELSE [st |-> "ok",
                   it |-> [st |-> "ok", bst |-> r.t,
                           sorted_idxs |-> Front(it.sorted_idxs)],
                   item |-> r.ret])

\* ExactSizeIterator for IntoIter
into_iter_len(it) == Len(it.sorted_idxs)

\* the consuming iteration up to the call of next() that returns None: the
\* items, what len() returns before each call, and the tree after each item
RECURSIVE into_iter_loop(_, _, _, _)
into_iter_loop(it, items, lens, trees) ==
    With(into_iter_next(it), LAMBDA n :
        IF n.st # "ok"
        THEN [st |-> n.st, items |-> items, lens |-> lens, trees |-> trees]
        ELSE IF ~n.item.occ
        THEN [st |-> "ok", items |-> items,
              lens |-> Append(lens, into_iter_len(it)), trees |-> trees]
        ELSE into_iter_loop(n.it, Append(items, n.item),
                            Append(lens, into_iter_len(it)),
                            Append(trees, n.it.bst)))

into_iter_run(t) ==
    With(into_iter_new(t), LAMBDA it :
        IF it.st # "ok"
        THEN [st |-> it.st, items |-> <<>>, lens |-> <<>>, trees |-> <<>>]
        ELSE into_iter_loop(it, <<>>, <<>>, <<>>))

\* ---- drain_filter, retain, split_off ---------------------------------------
DrainRes(st, t, drained) == [st |-> st, t |-> t, drained |-> drained]

\* "init list of node's arena indexes": the index priv_get finds for the key
\* of each item of the in-order iteration
RECURSIVE drain_key_idxs(_, _, _, _)
drain_key_idxs(t, items, k, key_idxs) ==
    IF k > Len(items) THEN [st |-> "ok", key_idxs |-> key_idxs]
    ELSE With(priv_get(t, FALSE, items[k].key), LAMBDA g :
             IF g.st # "ok" THEN [st |-> g.st, key_idxs |-> <<>>]
             ELSE IF g.ngh.node_idx = None THEN [st |-> "panic", key_idxs |-> <<>>]
             ELSE drain_key_idxs(t, items, k + 1, Append(key_idxs, g.ngh.node_idx)))

\* "Filter arena index list": pred holds of the keys in drain
RECURSIVE drain_remove_idxs(_, _, _, _, _)
drain_remove_idxs(items, key_idxs, drain, k, remove_idxs) ==
    IF k > Len(items) THEN [st |-> "ok", remove_idxs |-> remove_idxs]
    ELSE IF items[k].key \in drain
    THEN IF k > Len(key_idxs) THEN [st |-> "panic", remove_idxs |-> <<>>]
         ELSE drain_remove_idxs(items, key_idxs, drain, k + 1,
                                Append(remove_idxs, key_idxs[k]))
    ELSE drain_remove_idxs(items, key_idxs, drain, k + 1, remove_idxs)

\* "Drain non-matches"
RECURSIVE drain_move(_, _, _, _)
drain_move(t, drained_sgt, remove_idxs, k) ==
    IF k > Len(remove_idxs) THEN DrainRes("ok", t, drained_sgt)
    ELSE With(priv_remove_by_idx(t, remove_idxs[k]), LAMBDA r :
             IF r.st # "ok" THEN DrainRes(r.st, t, drained_sgt)
             ELSE IF ~r.ret.occ THEN drain_move(r.t, drained_sgt, remove_idxs, k + 1)
             ELSE With(try_insert(drained_sgt, r.ret.key, r.ret.ktag, r.ret.val), LAMBDA i :
                      IF i.st # "ok" THEN DrainRes(i.st, t, drained_sgt)
                      ELSE IF i.ret = StackCapacityExceeded
                      THEN DrainRes("panic", t, drained_sgt)
                      ELSE drain_move(r.t, i.t, remove_idxs, k + 1)))

priv_drain_filter(t, drain) ==
    With(sort_arena(t), LAMBDA s :
    With(iter_items(s.t, capacity(t)), LAMBDA it :
    With(drain_key_idxs(s.t, it.items, 1, <<>>), LAMBDA ki :
    With(iter_mut_items(s.t), LAMBDA im :
    With(drain_remove_idxs(im.items, ki.key_idxs, drain, 1, <<>>), LAMBDA ri :
        IF s.st # "ok" THEN DrainRes(s.st, t, t)
        ELSE IF it.st # "ok" THEN DrainRes(it.st, t, t)
        ELSE IF ki.st # "ok" THEN DrainRes(ki.st, t, t)
        ELSE IF im.st # "ok" THEN DrainRes(im.st, t, t)
        ELSE IF ri.st # "ok" THEN DrainRes(ri.st, t, t)
        ELSE drain_move(im.t, SgTreeNew(capacity(t)), ri.remove_idxs, 1))))))

\* retain(f): keep is the set of keys f holds of
retain(t, keep, all_keys) ==
    With(priv_drain_filter(t, all_keys \ keep), LAMBDA d :
        IF d.st # "ok" THEN Abort(d.st, t) ELSE Ok(d.t, None))

\* split_off(key): t is self afterwards, drained the tree returned
split_off(t, key, all_keys) ==
    priv_drain_filter(t, {k \in all_keys : k >= key})

\* ---- append ----------------------------------------------------------------
AppRes(st, t, other, ret) == [st |-> st, t |-> t, other |-> other, ret |-> ret]

\* "Rip elements directly out of other's arena": fallible distinguishes
\* try_append (try_insert and `?`) from append (insert)
RECURSIVE append_rip(_, _, _, _)
append_rip(t, other, arena_idx, fallible) ==
    IF arena_idx >= Len(other.arena.vec) THEN AppRes("ok", t, clear(other), None)
    ELSE
      With(arena_remove(other.arena, arena_idx), LAMBDA r :
      LET other1 == [other EXCEPT !.arena = r.a]
      IN
          IF r.st # "ok" THEN AppRes(r.st, t, other, None)
          ELSE IF ~r.node.occ THEN append_rip(t, other1, arena_idx + 1, fallible)
          ELSE
            With(IF fallible
                     THEN try_insert(t, r.node.key, r.node.ktag, r.node.val)
                     ELSE insert(t, r.node.key, r.node.ktag, r.node.val), LAMBDA i :
                IF i.st # "ok" THEN AppRes(i.st, t, other, None)
                ELSE IF i.ret = StackCapacityExceeded
                THEN AppRes("ok", i.t, other1, StackCapacityExceeded)
                ELSE append_rip(i.t, other1, arena_idx + 1, fallible)))

append(t, other) ==
    IF is_empty(other) THEN AppRes("ok", t, other, None)
    ELSE IF is_empty(t) THEN AppRes("ok", other, t, None)
    ELSE append_rip(t, other, 0, FALSE)

\* intersect_cnt: the items of self.iter() whose key other contains
RECURSIVE intersect_count(_, _, _, _)
intersect_count(items, other, k, cnt) ==
    IF k > Len(items) THEN [st |-> "ok", n |-> cnt]
    ELSE With(contains_key(other, items[k].key), LAMBDA c :
             IF c.st # "ok" THEN [st |-> c.st, n |-> 0]
             ELSE intersect_count(items, other, k + 1, IF c.ret THEN cnt + 1 ELSE cnt))

intersect_cnt(t, other) ==
    With(iter_items(t, None), LAMBDA it :
        IF it.st # "ok" THEN [st |-> it.st, n |-> 0]
        ELSE intersect_count(it.items, other, 1, 0))

try_append(t, other) ==
    IF is_empty(other) THEN AppRes("ok", t, other, None)
    ELSE IF is_empty(t) THEN AppRes("ok", other, t, None)
    ELSE With(intersect_cnt(t, other), LAMBDA c :
             IF c.st # "ok" THEN AppRes(c.st, t, other, None)
             ELSE IF c.n > len(t) + len(other) THEN AppRes("panic", t, other, None)
             ELSE IF len(t) + len(other) - c.n <= capacity(t)
             THEN append_rip(t, other, 0, TRUE)
             ELSE AppRes("ok", t, other, StackCapacityExceeded))

\* ---- from_iter, try_from_iter, try_extend ----------------------------------
\* the items of an input iterator: a sequence of [key, ktag, val]
\* FromIterator::from_iter and the for_each of try_extend: try_insert of every
\* item, with expect / assert!(is_ok) on the result
RECURSIVE insert_all(_, _, _)
insert_all(t, items, k) ==
    IF k > Len(items) THEN Ok(t, None)
    ELSE With(try_insert(t, items[k].key, items[k].ktag, items[k].val), LAMBDA i :
             IF i.st # "ok" THEN Abort(i.st, t)
             ELSE IF i.ret = StackCapacityExceeded THEN Abort("panic", t)
             ELSE insert_all(i.t, items, k + 1))

from_iter(items, cap) == insert_all(SgTreeNew(cap), items, 1)

\* Idx::MAX, what max_capacity() returns
IDX_MAX == 65535

try_from_iter(items, cap) ==
    IF Len(items) <= IDX_MAX THEN from_iter(items, cap)
    ELSE Ok(SgTreeNew(cap), MaximumCapacityExceeded)

try_extend(t, items) ==
    IF Len(items) <= capacity(t) - len(t) THEN insert_all(t, items, 1)
    ELSE Ok(t, StackCapacityExceeded)

\* ---- set_rebal_param, rebal_param ------------------------------------------
\* the f32 parameters are whole numbers here.  alpha_num / alpha_denom: the
\* quotient as a fraction n / d with d > 0; division by zero gives an
\* infinity or NaN, which no range contains (fin is FALSE)
f32_div(x, y) ==
    IF y = 0 THEN [fin |-> FALSE, n |-> 0, d |-> 1]
    ELSE IF y < 0 THEN [fin |-> TRUE, n |-> -x, d |-> -y]
    ELSE [fin |-> TRUE, n |-> x, d |-> y]

\* (0.5..=1.0).contains(&a): the range with its upper end included
range_contains_closed(a) == a.fin /\ a.d <= 2 * a.n /\ a.n <= a.d

\* (0.5..1.0).contains(&a)
range_contains(a) == a.fin /\ a.d <= 2 * a.n /\ a.n < a.d

RebalanceFactorOutOfRange == -4

\* ret is None for Ok(()), the error for Err
set_rebal_param(t, alpha_num, alpha_denom) ==
    With(f32_div(alpha_num, alpha_denom), LAMBDA a :
        IF range_contains(a)
        THEN Ok([t EXCEPT !.alpha_num = alpha_num, !.alpha_denom = alpha_denom], None)
        ELSE Ok(t, RebalanceFactorOutOfRange))

rebal_param(t) == <<t.alpha_num, t.alpha_denom>>

\* ---- the program ---------------------------------------------------------
\* t: the tree; M: the finite map the caller expects it to hold (key ->
\* [ktag, val], for the keys inserted and not removed); status: "ok" until a
\* call panics or hangs; last: the name of the last call
VARIABLES t, M, status, last
vars == <<t, M, status, last>>

MapPut(m, key, ktag, val) ==
    [k \in (DOMAIN m) \cup {key} |->
        IF k = key THEN [ktag |-> ktag, val |-> val] ELSE m[k]]
MapDel(m, keys) == [k \in (DOMAIN m) \ keys |-> m[k]]
EmptyMap == [k \in {} |-> [ktag |-> 0, val |-> 0]]
MapMin(m) == CHOOSE k \in DOMAIN m : \A j \in DOMAIN m : k <= j
MapMax(m) == CHOOSE k \in DOMAIN m : \A j \in DOMAIN m : k >= j

\* the value the caller stores under a key, and the pair as an iterator item
ValOf(key) == 10 * key
Item(key) == [key |-> key, ktag |-> ValOf(key), val |-> ValOf(key)]
RECURSIVE MapPutAll(_, _, _)
MapPutAll(m, items, k) ==
    IF k > Len(items) THEN m
    ELSE MapPutAll(MapPut(m, items[k].key, items[k].ktag, items[k].val), items, k + 1)

\* the input iterators: the sequences of 1 to n items with keys in Keys
ItemSeqs(keys, n) ==
    UNION {[1..j -> {Item(key) : key \in keys}] : j \in 1..n}

Init ==
    /\ t = SgTreeNew(N)
    /\ M = EmptyMap
    /\ status = "ok"
    /\ last = "new"

\* the counters that grow without limit are capped
Capped(t1) == t1.max_size <= MaxHW /\ t1.rebal_cnt <= MaxRebal

\* a call with outcome r and the map m it should leave
Step(name, r, m) ==
    /\ status = "ok"
    /\ With(r, LAMBDA o :
          /\ last' = name
          /\ status' = o.st
          /\ IF o.st = "ok"
             THEN Capped(o.t) /\ t' = o.t /\ M' = m
             ELSE t' = t /\ M' = M)

\* the caller respects the capacity: no new key when the tree is full
Insert(key) ==
    /\ key \in DOMAIN M \/ len(t) < capacity(t)
    /\ Step("insert", insert(t, key, ValOf(key), ValOf(key)),
            MapPut(M, key, ValOf(key), ValOf(key)))

Remove(key) ==
    Step("remove", remove(t, key), MapDel(M, {key}))

PopFirst ==
    Step("pop_first", pop_first(t),
         IF DOMAIN M = {} THEN M ELSE MapDel(M, {MapMin(M)}))

PopLast ==
    Step("pop_last", pop_last(t),
         IF DOMAIN M = {} THEN M ELSE MapDel(M, {MapMax(M)}))

Retain(keep) ==
    Step("retain", retain(t, keep, Keys), MapDel(M, Keys \ keep))

\* split_off(key), the caller going on with self
SplitOffSelf(key) ==
    Step("split_off", split_off(t, key, Keys),
         MapDel(M, {k \in Keys : k >= key}))

\* split_off(key), the caller going on with the tree returned
SplitOffReturned(key) ==
    With(split_off(t, key, Keys), LAMBDA d :
        Step("split_off_ret", [st |-> d.st, t |-> d.drained],
             MapDel(M, {k \in Keys : k < key})))

\* append(other), other built from the items; the union fits the capacity
AppendOther(items) ==
    With(from_iter(items, capacity(t)), LAMBDA o :
        /\ Cardinality(DOMAIN M \cup {items[k].key : k \in DOMAIN items})
               <= capacity(t)
        /\ o.st = "ok"
        /\ Step("append", append(t, o.t), MapPutAll(M, items, 1)))

TryInsert(key) ==
    With(try_insert(t, key, ValOf(key), ValOf(key)), LAMBDA r :
        Step("try_insert", r,
             IF r.ret = StackCapacityExceeded THEN M
             ELSE MapPut(M, key, ValOf(key), ValOf(key))))

TryAppend(items) ==
    With(from_iter(items, capacity(t)), LAMBDA o :
    With(try_append(t, o.t), LAMBDA r :
        /\ o.st = "ok"
        /\ Step("try_append", r,
                IF r.ret = StackCapacityExceeded THEN M
                ELSE MapPutAll(M, items, 1))))

TryExtend(items) ==
    With(try_extend(t, items), LAMBDA r :
        Step("try_extend", r,
             IF r.ret = StackCapacityExceeded THEN M
             ELSE MapPutAll(M, items, 1)))

\* the constructor from an iterator makes the first tree
TryFromIter(items) ==
    /\ last = "new"
    /\ Step("try_from_iter", try_from_iter(items, N), MapPutAll(EmptyMap, items, 1))

Clear ==
    Step("clear", Ok(clear(t), None), EmptyMap)

SetRebalParam(alpha_num, alpha_denom) ==
    Step("set_rebal_param", set_rebal_param(t, alpha_num, alpha_denom), M)

\* the keys of the occupied slots of the arena
ArenaKeys(t1) ==
    {t1.arena.vec[i].key : i \in {j \in DOMAIN t1.arena.vec : t1.arena.vec[j].occ}}

\* ---- the map calls on a tree of capacity N -----------------------------------
Next ==
    \/ \E key \in Keys : Insert(key)
    \/ \E key \in Keys : Remove(key)
    \/ PopFirst
    \/ PopLast
    \/ \E key \in Keys : TryInsert(key)
    \/ \E items \in ItemSeqs(Keys, MaxOther) : TryExtend(items)
    \/ Clear

Spec == Init /\ [][Next]_vars

\* ---- the constructor from an iterator, capacity N ----------------------------
\* the items have one key more than Keys has, so up to N + 1 distinct keys
NextIter ==
    \E items \in ItemSeqs(Keys \cup {2 * N + 2}, MaxIter) : TryFromIter(items)

SpecIter == Init /\ [][NextIter]_vars

\* ---- the bulk calls on a tree of capacity N ----------------------------------
\* a predicate of retain is told by the keys it holds of among those stored
\* the other tree of append and try_append is built from items of distinct
\* keys, inserted in ascending order
OtherItemSeqs ==
    {items \in ItemSeqs(Keys, MaxOther) :
        \A i, j \in DOMAIN items : i < j => items[i].key < items[j].key}

NextBulk ==
    \/ \E key \in Keys : Insert(key)
    \/ \E keep \in SUBSET (DOMAIN M \cup ArenaKeys(t)) : Retain(keep)
    \/ \E key \in Keys : SplitOffSelf(key)
    \/ \E key \in Keys : SplitOffReturned(key)
    \/ \E items \in OtherItemSeqs : AppendOther(items)
    \/ \E items \in OtherItemSeqs : TryAppend(items)

SpecBulk == Init /\ [][NextBulk]_vars

\* ---- insert and remove on a tree of capacity NDeep ---------------------------
KeysDeep == KeysOf(NDeep)

InitDeep ==
    /\ t = SgTreeNew(NDeep)
    /\ M = EmptyMap
    /\ status = "ok"
    /\ last = "new"

NextDeep ==
    \/ \E key \in KeysDeep : Insert(key)
    \/ \E key \in KeysDeep : Remove(key)

SpecDeep == InitDeep /\ [][NextDeep]_vars

\* ---- the rebalance parameter of a new tree -------------------------------------
\* the parameters a caller passes
Params == (-MaxParam)..MaxParam

NextParam ==
    \E alpha_num \in Params : \E alpha_denom \in Params :
        SetRebalParam(alpha_num, alpha_denom)

SpecParam == Init /\ [][NextParam]_vars

\* ---- ascending inserts into a tree of capacity S6Cap ---------------------------
S6Cap == 10
MaxAscKey == 8

InitAsc ==
    /\ t = SgTreeNew(S6Cap)
    /\ M = EmptyMap
    /\ status = "ok"
    /\ last = "new"

\* insert(key, val) of a key above every key stored
InsertAscending(key) ==
    /\ status = "ok"
    /\ \A k \in DOMAIN M : k < key
    /\ With(insert(t, key, ValOf(key), ValOf(key)), LAMBDA r :
          /\ last' = "insert"
          /\ status' = r.st
          /\ IF r.st = "ok"
             THEN t' = r.t /\ M' = MapPut(M, key, ValOf(key), ValOf(key))
             ELSE t' = t /\ M' = M)

NextAsc ==
    \E key \in 1..MaxAscKey : InsertAscending(key)

SpecAsc == InitAsc /\ [][NextAsc]_vars

\* ---- the keys of a set inserted in any order, capacity NDeep -------------------
InsertNew(key) ==
    /\ key \notin DOMAIN M
    /\ Insert(key)

NextPerm ==
    \E key \in KeysDeep : InsertNew(key)

SpecPerm == InitDeep /\ [][NextPerm]_vars

\* ---- add, remove and sort on the arena of a tree of capacity NSlots -----------
NSlots == 3

InitSlots ==
    /\ t = SgTreeNew(NSlots)
    /\ M = EmptyMap
    /\ status = "ok"
    /\ last = "new"

\* iter_mut(): the caller gets the iterator of the arena it has sorted
IterMut ==
    With(iter_mut_new(t), LAMBDA it : Step("iter_mut", [st |-> it.st, t |-> it.t], M))

NextSlots ==
    \/ \E key \in KeysOf(NSlots) : Insert(key)
    \/ \E key \in KeysOf(NSlots) : Remove(key)
    \/ IterMut

SpecSlots == InitSlots /\ [][NextSlots]_vars

\* ---- new keys inserted in any order, capacity NGrow ----------------------------
NGrow == 6

InitGrow ==
    /\ t = SgTreeNew(NGrow)
    /\ M = EmptyMap
    /\ status = "ok"
    /\ last = "new"

\* insert(key, val) of a key that is not stored
InsertFresh(key) ==
    /\ status = "ok"
    /\ key \notin DOMAIN M
    /\ len(t) < capacity(t)
    /\ With(insert(t, key, ValOf(key), ValOf(key)), LAMBDA r :
          /\ last' = "insert"
          /\ status' = r.st
          /\ IF r.st = "ok"
             THEN t' = r.t /\ M' = MapPut(M, key, ValOf(key), ValOf(key))
             ELSE t' = t /\ M' = M)

NextGrow ==
    \E key \in 1..NGrow : InsertFresh(key)

SpecGrow == InitGrow /\ [][NextGrow]_vars

\* ---- the arena alone: add and remove, capacity NArena -------------------------
\* t.arena is the arena; M.freed lists the indexes handed to remove, oldest
\* first, and M.ret is the index the last add returned
NArena == 4
MaxFreed == 3

InitArena ==
    /\ t = SgTreeNew(NArena)
    /\ M = [freed |-> <<>>, ret |-> None]
    /\ status = "ok"
    /\ last = "new"

\* arena.add(key, val)
ArenaAdd(key) ==
    /\ status = "ok"
    /\ With(arena_add(t.arena, key, key, ValOf(key)), LAMBDA r :
          /\ last' = "add"
          /\ status' = r.st
          /\ IF r.st = "ok"
             THEN t' = [t EXCEPT !.arena = r.a] /\ M' = [M EXCEPT !.ret = r.idx]
             ELSE t' = t /\ M' = M)

\* arena.remove(idx) of an index below the length
ArenaRemove(idx) ==
    /\ status = "ok"
    /\ idx < Len(t.arena.vec)
    /\ Len(M.freed) < MaxFreed
    /\ With(arena_remove(t.arena, idx), LAMBDA r :
          /\ last' = "remove"
          /\ status' = r.st
          /\ IF r.st = "ok"
             THEN /\ t' = [t EXCEPT !.arena = r.a]
                  /\ M' = IF r.node.occ THEN [M EXCEPT !.freed = Append(@, idx)] ELSE M
             ELSE t' = t /\ M' = M)

NextArena ==
    \/ \E key \in 1..2 : ArenaAdd(key)
    \/ \E idx \in 0..(NArena - 1) : ArenaRemove(idx)

SpecArena == InitArena /\ [][NextArena]_vars

\* ---- the swap history alone, over the positions 0..NSwap-1 --------------------
\* t.history is the cache; M[i] is the position of the element that started
\* at i, kept by applying every swap to the identity permutation
NSwap == 4

InitSwaps ==
    /\ t = [history |-> <<>>, cap |-> NSwap]
    /\ M = [i \in 0..(NSwap - 1) |-> i]
    /\ status = "ok"
    /\ last = "new"

\* the swap of the elements at pos_1 and pos_2, logged with add(pos_1, pos_2)
SwapAndLog(pos_1, pos_2) ==
    /\ status = "ok"
    /\ pos_1 # pos_2
    /\ With(swap_hist_add(t.history, pos_1, pos_2, t.cap), LAMBDA r :
          /\ last' = "add"
          /\ status' = r.st
          /\ IF r.st = "ok"
             THEN /\ t' = [t EXCEPT !.history = r.history]
                  /\ M' = [i \in DOMAIN M |->
                             IF M[i] = pos_1 THEN pos_2
                             ELSE IF M[i] = pos_2 THEN pos_1 ELSE M[i]]
             ELSE t' = t /\ M' = M)

NextSwaps ==
    \E pos_1 \in 0..(NSwap - 1) : \E pos_2 \in 0..(NSwap - 1) : SwapAndLog(pos_1, pos_2)

SpecSwaps == InitSwaps /\ [][NextSwaps]_vars

\* ---- what the claims speak of ------------------------------------------------
\* the arena indexes of the nodes reachable from the root
RECURSIVE ReachFrom(_, _, _)
ReachFrom(t1, frontier, seen) ==
    IF frontier = {} THEN seen
    ELSE LET next == {c \in UNION {{At(t1, i).left_idx, At(t1, i).right_idx} : i \in frontier} :
                        c # None /\ Occ(t1, c)} \ seen
         IN  ReachFrom(t1, next, seen \cup next)

Reach(t1) ==
    IF t1.opt_root_idx = None \/ ~Occ(t1, t1.opt_root_idx) THEN {}
    ELSE ReachFrom(t1, {t1.opt_root_idx}, {t1.opt_root_idx})

\* the arena indexes of the nodes below the node at idx, idx included
Subtree(t1, idx) ==
    IF idx = None \/ ~Occ(t1, idx) THEN {} ELSE ReachFrom(t1, {idx}, {idx})

OccupiedIdxs(t1) == {i \in 0..(Len(t1.arena.vec) - 1) : Occ(t1, i)}

\* the number of edges of the longest walk down from idx, of at most fuel edges
RECURSIVE Height(_, _, _)
Height(t1, idx, fuel) ==
    LET cs == {c \in {At(t1, idx).left_idx, At(t1, idx).right_idx} : c # None /\ Occ(t1, c)}
        hs == {1 + Height(t1, c, fuel - 1) : c \in cs}
    IN  IF fuel = 0 \/ cs = {} THEN 0
        ELSE CHOOSE h \in hs : \A g \in hs : h >= g

\* the depth of the deepest reachable node; capacity + 1 tells a cycle
TreeDepth(t1) ==
    IF Reach(t1) = {} THEN 0 ELSE Height(t1, t1.opt_root_idx, capacity(t1) + 1)

\* the pairs of a sequence of nodes, and whether its keys strictly ascend
PairsOf(items) == {<<items[i].key, items[i].val>> : i \in DOMAIN items}
Ascending(items) ==
    \A i \in DOMAIN items : \A j \in DOMAIN items : i < j => items[i].key < items[j].key
MapPairs(m) == {<<k, m[k].val>> : k \in DOMAIN m}

\* for every reachable node the keys to its left are less, to its right greater
BstOrder(t1) ==
    \A i \in Reach(t1) :
        /\ \A j \in Subtree(t1, At(t1, i).left_idx) : At(t1, j).key < At(t1, i).key
        /\ \A j \in Subtree(t1, At(t1, i).right_idx) : At(t1, j).key > At(t1, i).key

\* what the map returns for a key: the value stored, or None
MapGet(m, key) == IF key \in DOMAIN m THEN m[key].val ELSE None

\* ---- C1 ----------------------------------------------------------------------
\* C1: run side by side with the map M, under insert and remove calls that
\* never insert a new key into a full tree, every call returns (no panic, no
\* hang), and in the state it leaves get(k) is M[k] for the keys of M and None
\* for the others, contains_key(k) tells k in M, and the next insert or remove
\* of any key returns what M returns for it: the previous value or None.
C1_RefinesMap ==
    /\ status = "ok"
    /\ \A k \in ProbesOf(capacity(t)) :
          /\ get(t, k).st = "ok"
          /\ get(t, k).ret = MapGet(M, k)
          /\ contains_key(t, k).st = "ok"
          /\ contains_key(t, k).ret = (k \in DOMAIN M)
          /\ remove(t, k).st = "ok"
          /\ remove(t, k).ret = MapGet(M, k)
          /\ (k \in DOMAIN M \/ len(t) < capacity(t)) =>
                \A v \in Vals : /\ insert(t, k, v, v).st = "ok"
                                /\ insert(t, k, v, v).ret = MapGet(M, k)

\* ---- C2 ----------------------------------------------------------------------
\* C2: after every sequence of calls that respects the capacity, iter() yields
\* every stored pair exactly once with the keys strictly ascending, and for
\* every node reachable from the root the keys of its left subtree are
\* strictly smaller and the keys of its right subtree strictly greater.
C2_InOrderAscending ==
    /\ status = "ok"
    /\ iter_items(t, None).st = "ok"
    /\ Ascending(iter_items(t, None).items)
    /\ PairsOf(iter_items(t, None).items) = MapPairs(M)
    /\ BstOrder(t)

\* ---- C3 ----------------------------------------------------------------------
\* C3: after every call len() is the number of pairs an in-order traversal
\* yields, the number of occupied arena slots and the number of distinct
\* nodes reachable from the root, and is at most the capacity.
C3_SizeConsistent ==
    /\ iter_items(t, None).st = "ok"
    /\ len(t) = Len(iter_items(t, None).items)
    /\ len(t) = Cardinality(OccupiedIdxs(t))
    /\ len(t) = Cardinality(Reach(t))
    /\ len(t) <= capacity(t)

\* ---- C4 ----------------------------------------------------------------------
\* C4: on a full tree try_insert of a key that is not stored returns
\* Err(StackCapacityExceeded) and leaves the tree as it was, try_insert of a
\* key that is stored returns Ok(Some(old value)) and stores the new value; on
\* a tree that is not full try_insert of a new key returns Ok(None) and len()
\* grows by one.
C4_TryInsertCase(k, v) ==
    LET r == try_insert(t, k, v, v)
    IN  /\ r.st = "ok"
        /\ (len(t) = capacity(t) /\ k \notin DOMAIN M) =>
               (r.ret = StackCapacityExceeded /\ r.t = t)
        /\ (len(t) = capacity(t) /\ k \in DOMAIN M) =>
               (r.ret = M[k].val /\ get(r.t, k).st = "ok" /\ get(r.t, k).ret = v)
        /\ (len(t) < capacity(t) /\ k \notin DOMAIN M) =>
               (r.ret = None /\ len(r.t) = len(t) + 1)

C4_TryInsert ==
    \A k \in ProbesOf(capacity(t)) : \A v \in Vals : C4_TryInsertCase(k, v)

\* ---- C5 ----------------------------------------------------------------------
\* the arena indexes of the slots that hold a key
SlotsOf(t1, key) == {i \in OccupiedIdxs(t1) : At(t1, i).key = key}

\* C5: insert(k, v2) of a key that is stored returns the value stored before,
\* leaves len() as it was, and overwrites the key and the value in the slot
\* the node had, so that get(k) returns v2 afterwards.
C5_ReplaceCase(k, v) ==
    LET r == insert(t, k, v, v)
    IN  /\ r.st = "ok"
        /\ r.ret = M[k].val
        /\ len(r.t) = len(t)
        /\ SlotsOf(r.t, k) = SlotsOf(t, k)
        /\ \A i \in SlotsOf(r.t, k) : At(r.t, i).ktag = v /\ At(r.t, i).val = v
        /\ get(r.t, k).st = "ok"
        /\ get(r.t, k).ret = v

C5_Replace ==
    \A k \in DOMAIN M : \A v \in Vals : C5_ReplaceCase(k, v)

\* ---- C6 ----------------------------------------------------------------------
\* C6: the fallible calls try_insert, try_append, try_extend and try_from_iter
\* never panic, try_from_iter of an iterator of more than N distinct keys
\* included: they return an error value instead.
C6_FallibleNeverPanics ==
    last \in {"try_insert", "try_append", "try_extend", "try_from_iter"} =>
        status # "panic"

C9_HighWater ==
    /\ len(t) <= t.max_size
    /\ t.max_size <= 2 * len(t)

\* ---- C10 ---------------------------------------------------------------------
\* C10: after every call, when the tree is not empty min_idx is the slot of the
\* node with the least key and max_idx the slot of the node with the greatest
\* key, first_key_value() and last_key_value() return these pairs, and they
\* return None exactly when the tree is empty.
C10_Extrema ==
    /\ first_key_value(t).st = "ok"
    /\ last_key_value(t).st = "ok"
    /\ (DOMAIN M = {}) <=> ~first_key_value(t).ret.occ
    /\ (DOMAIN M = {}) <=> ~last_key_value(t).ret.occ
    /\ DOMAIN M # {} =>
          /\ Occ(t, t.min_idx) /\ At(t, t.min_idx).key = MapMin(M)
          /\ Occ(t, t.max_idx) /\ At(t, t.max_idx).key = MapMax(M)
          /\ first_key_value(t).ret.key = MapMin(M)
          /\ first_key_value(t).ret.val = M[MapMin(M)].val
          /\ last_key_value(t).ret.key = MapMax(M)
          /\ last_key_value(t).ret.val = M[MapMax(M)].val

\* ---- C11 ---------------------------------------------------------------------
\* lens, what len() returned before each call of next() up to the one that
\* returned None, count down by one from n0 to 0
ExactLens(lens, n0) ==
    /\ lens # <<>>
    /\ lens[1] = n0
    /\ \A i \in DOMAIN lens : lens[i] = Len(lens) - i

\* C11: for iter(), iter_mut() and into_iter(), before every call of next()
\* the iterator's len() is the number of items next() still yields: the
\* tree's len() at creation, one less after each item, 0 exactly when next()
\* returns None; also when the arena has slots freed by earlier removals.
C11_ExactLen ==
    /\ iter_lens(t).st = "ok"
    /\ ExactLens(iter_lens(t).lens, len(t))
    /\ iter_mut_lens(t).st = "ok"
    /\ ExactLens(iter_mut_lens(t).lens, len(t))
    /\ into_iter_run(t).st = "ok"
    /\ ExactLens(into_iter_run(t).lens, len(t))

\* ---- C12 ---------------------------------------------------------------------
\* the keys of m in ascending order
RECURSIVE SortedKeys(_)
SortedKeys(keys) ==
    IF keys = {} THEN <<>>
    ELSE LET least == CHOOSE k \in keys : \A j \in keys : k <= j
         IN  <<least>> \o SortedKeys(keys \ {least})

\* C12: iter_mut() yields every stored pair exactly once with the keys
\* strictly ascending: the arena it has sorted holds the node of the i-th
\* smallest key in slot i for every i < len() and nothing in the slots from
\* len() on, and the walk up to the first empty slot skips no stored pair.
C12_IterMutSorted ==
    /\ iter_mut_items(t).st = "ok"
    /\ Len(iter_mut_items(t).items) = len(t)
    /\ Ascending(iter_mut_items(t).items)
    /\ PairsOf(iter_mut_items(t).items) = MapPairs(M)
    /\ \A i \in 0..(Len(iter_mut_items(t).t.arena.vec) - 1) :
          IF i < len(t)
          THEN /\ Occ(iter_mut_items(t).t, i)
               /\ i < Cardinality(DOMAIN M)
               /\ At(iter_mut_items(t).t, i).key = SortedKeys(DOMAIN M)[i + 1]
          ELSE ~Occ(iter_mut_items(t).t, i)

\* ---- C13 ---------------------------------------------------------------------
\* C13: into_iter() on a tree of n pairs yields every stored pair exactly
\* once with the keys ascending, and each next() removes the node it yields:
\* after j calls the tree has len() = n - j and holds exactly the n - j
\* greatest keys.
C13_IntoIterConsumes ==
    /\ into_iter_run(t).st = "ok"
    /\ Len(into_iter_run(t).items) = len(t)
    /\ Ascending(into_iter_run(t).items)
    /\ PairsOf(into_iter_run(t).items) = MapPairs(M)
    /\ \A j \in DOMAIN into_iter_run(t).trees :
          /\ len(into_iter_run(t).trees[j]) = len(t) - j
          /\ ArenaKeys(into_iter_run(t).trees[j])
                = {into_iter_run(t).items[i].key :
                      i \in (j + 1)..Len(into_iter_run(t).items)}

\* ---- C14 ---------------------------------------------------------------------
\* remove and remove_entry of the key k return None and leave the tree as it was
C14_AbsentCase(k) ==
    /\ remove(t, k).st = "ok"
    /\ remove(t, k).ret = None
    /\ remove(t, k).t = t
    /\ remove_entry(t, k).st = "ok"
    /\ ~remove_entry(t, k).ret.occ
    /\ remove_entry(t, k).t = t

\* C14: remove(k) and remove_entry(k) of a key that is not present (the map
\* does not have it and no arena slot holds it) return None and leave the
\* whole tree unchanged: arena slots, free list, root, child links, size,
\* max_size, min_idx, max_idx and rebal_cnt.
C14_RemoveAbsent ==
    \A k \in ProbesOf(capacity(t)) :
        (k \notin DOMAIN M /\ k \notin ArenaKeys(t)) => C14_AbsentCase(k)

\* ---- C15 ---------------------------------------------------------------------
\* the call with outcome r removed and returned the pair of the key k of M
C15_PopCase(r, k) ==
    /\ r.st = "ok"
    /\ r.ret.occ
    /\ r.ret.key = k
    /\ r.ret.val = M[k].val
    /\ len(r.t) = len(t) - 1
    /\ \A j \in DOMAIN M :
          /\ get(r.t, j).st = "ok"
          /\ get(r.t, j).ret = IF j = k THEN None ELSE M[j].val

\* the call with outcome r returned None and changed nothing
C15_NoneCase(r) ==
    /\ r.st = "ok"
    /\ ~r.ret.occ
    /\ r.t = t

\* C15: on a tree that is not empty pop_first() (pop_last()) removes and
\* returns the pair of the least (greatest) key, len() is one less and every
\* other pair stays stored, so every key left is greater (smaller) than the
\* one returned; on an empty tree, one emptied by removals included, it
\* returns None and changes nothing.
C15_PopFirstLast ==
    IF DOMAIN M = {}
    THEN C15_NoneCase(pop_first(t)) /\ C15_NoneCase(pop_last(t))
    ELSE C15_PopCase(pop_first(t), MapMin(M)) /\ C15_PopCase(pop_last(t), MapMax(M))

\* ---- C16, C17 ----------------------------------------------------------------
\* the pairs of another tree: its values differ from those self stores
OtherItem(key) == [key |-> key, ktag |-> ValOf(key) + 1, val |-> ValOf(key) + 1]

\* the item sequences the other tree is built from, the empty one included
OtherSeqs == UNION {[1..j -> {OtherItem(key) : key \in Keys}] : j \in 0..MaxOther}

\* the keys of a sequence of items
KeysIn(items) == {items[i].key : i \in DOMAIN items}

\* try_append(other), other built from items, answers r
C16_TryAppendCase(items, other, r) ==
    /\ r.st = "ok"
    /\ IF len(t) + len(other) - Cardinality(DOMAIN M \cap KeysIn(items)) > capacity(t)
       THEN r.ret = StackCapacityExceeded /\ r.t = t /\ r.other = other
       ELSE r.ret = None

\* C16: with both trees not empty try_append(other) returns
\* Err(StackCapacityExceeded) exactly when self.len() + other.len() less the
\* number of keys in both is more than N, and then it changes neither self
\* nor other; otherwise it returns Ok(()).
C16_TryAppendRejects ==
    ~is_empty(t) =>
        \A items \in OtherSeqs \ {<<>>} :
            With(from_iter(items, capacity(t)).t, LAMBDA other :
                C16_TryAppendCase(items, other, try_append(t, other)))

\* the call with outcome r, if it returned (Ok, for try_append), moved the
\* pairs of items into self
C17_AppendCase(items, r) ==
    (r.st = "ok" /\ r.ret = None) =>
          /\ len(r.other) = 0
          /\ is_empty(r.other)
          /\ len(r.t) = Cardinality(DOMAIN M \cup KeysIn(items))
          /\ \A k \in ProbesOf(capacity(t)) :
                /\ get(r.t, k).st = "ok"
                /\ get(r.t, k).ret = MapGet(MapPutAll(M, items, 1), k)

\* C17: after append(other), and after try_append(other) that returns Ok,
\* other is empty (len() = 0) and self holds exactly the union of the two key
\* sets, with the value other had for a key of both and the value self had
\* otherwise; self.len() is the size of the union.
C17_AppendUnion ==
    \A items \in OtherSeqs :
        With(from_iter(items, capacity(t)).t, LAMBDA other :
            /\ C17_AppendCase(items, try_append(t, other))
            /\ Cardinality(DOMAIN M \cup KeysIn(items)) <= capacity(t) =>
                  C17_AppendCase(items, append(t, other)))

\* ---- C18 ---------------------------------------------------------------------
\* the tree t1 holds exactly the pairs of M with a key in keys, in BST order,
\* and its len() is their number
HoldsExactly(t1, keys) ==
    /\ iter_items(t1, None).st = "ok"
    /\ Ascending(iter_items(t1, None).items)
    /\ PairsOf(iter_items(t1, None).items) = MapPairs(MapDel(M, DOMAIN M \ keys))
    /\ BstOrder(t1)
    /\ len(t1) = Cardinality(DOMAIN M \cap keys)
    /\ Cardinality(OccupiedIdxs(t1)) = Cardinality(DOMAIN M \cap keys)

\* C18: split_off(k) returns a tree that holds exactly the former pairs with
\* key >= k and leaves in self exactly the former pairs with key < k, values
\* unchanged; both trees are in BST order and their len() is their number of
\* pairs.
C18_SplitOff ==
    \A k \in ProbesOf(capacity(t)) :
        /\ split_off(t, k, Keys).st = "ok"
        /\ HoldsExactly(split_off(t, k, Keys).drained, {j \in Keys : j >= k})
        /\ HoldsExactly(split_off(t, k, Keys).t, {j \in Keys : j < k})

\* ---- C19 ---------------------------------------------------------------------
\* the keys retain calls its predicate on, in the order of the calls: those of
\* iter_mut() on the tree priv_drain_filter has sorted
retain_visits(t1) ==
    With(sort_arena(t1), LAMBDA s :
        IF s.st # "ok" THEN [st |-> s.st, items |-> <<>>]
        ELSE [st |-> iter_mut_items(s.t).st, items |-> iter_mut_items(s.t).items])

\* scenario S7: keys 0..=7 with values 10 * k in a tree of capacity S7Cap, retain
\* of the even keys, then the consuming iterator
S7Cap == 8
S7Items == [i \in 1..8 |-> [key |-> i - 1, ktag |-> 10 * (i - 1), val |-> 10 * (i - 1)]]
S7Run ==
    With(from_iter(S7Items, S7Cap), LAMBDA b :
    With(retain(b.t, {0, 2, 4, 6}, 0..7), LAMBDA r :
        IF b.st # "ok" THEN [st |-> b.st, items |-> <<>>]
        ELSE IF r.st # "ok" THEN [st |-> r.st, items |-> <<>>]
        ELSE [st |-> into_iter_run(r.t).st,
              items |-> [i \in DOMAIN into_iter_run(r.t).items |->
                            <<into_iter_run(r.t).items[i].key,
                              into_iter_run(r.t).items[i].val>>]]))

\* C19: retain(pred) calls pred on the pairs in ascending key order and then
\* the tree holds exactly the pairs pred held of, in order, with len() their
\* number; keys 0..=7 with values 10 * k, retained when even, leave the
\* consuming iterator (0,0), (2,20), (4,40), (6,60).
C19_Retain ==
    /\ retain_visits(t).st = "ok"
    /\ Ascending(retain_visits(t).items)
    /\ PairsOf(retain_visits(t).items) = MapPairs(M)
    /\ \A keep \in SUBSET (DOMAIN M) :
          /\ retain(t, keep, Keys).st = "ok"
          /\ HoldsExactly(retain(t, keep, Keys).t, keep)
    /\ S7Run.st = "ok"
    /\ S7Run.items = << <<0, 0>>, <<2, 20>>, <<4, 40>>, <<6, 60>> >>

\* ---- C20 ---------------------------------------------------------------------
\* 0.5 <= num / denom < 1.0
InHalfToOne(num, denom) ==
    /\ denom # 0
    /\ denom * denom <= 2 * num * denom
    /\ num * denom < denom * denom

C20_Case(num, denom, r) ==
    /\ r.st = "ok"
    /\ IF InHalfToOne(num, denom)
       THEN /\ r.ret = None
            /\ rebal_param(r.t) = <<num, denom>>
            /\ [r.t EXCEPT !.alpha_num = t.alpha_num, !.alpha_denom = t.alpha_denom] = t
       ELSE /\ r.ret = RebalanceFactorOutOfRange
            /\ rebal_param(r.t) = rebal_param(t)
            /\ r.t = t

\* C20: set_rebal_param(num, denom) returns Ok and stores (num, denom) exactly
\* when 0.5 <= num / denom < 1.0; otherwise it returns
\* Err(RebalanceFactorOutOfRange) and leaves the stored parameters as they
\* were; a new tree has the parameters (2, 3); (1, 3) is rejected and (3, 4)
\* is accepted.
C20_RebalParam ==
    /\ \A num \in Params : \A denom \in Params :
          C20_Case(num, denom, set_rebal_param(t, num, denom))
    /\ rebal_param(SgTreeNew(N)) = <<2, 3>>
    /\ set_rebal_param(t, 1, 3).ret = RebalanceFactorOutOfRange
    /\ rebal_param(set_rebal_param(t, 1, 3).t) = rebal_param(t)
    /\ set_rebal_param(t, 3, 4).ret = None
    /\ rebal_param(set_rebal_param(t, 3, 4).t) = <<3, 4>>

\* set_rebal_param(3, 4) was the last call and the tree has its parameters
C20_Accepted ==
    last = "set_rebal_param" /\ rebal_param(t) = <<3, 4>>

\* C21: inserting the keys 1, 2, ..., 8 in ascending order into an empty tree
\* of capacity 10 with the default alpha triggers at least one scapegoat
\* rebuild and leaves a tree of height at most 4
S6Done == DOMAIN M = 1..8 /\ last = "insert"
C21_AscendingEight ==
    S6Done => (status = "ok" /\ t.rebal_cnt >= 1 /\ TreeDepth(t) <= 4)

\* C21 as amended: the inserts trigger at least one scapegoat rebuild and leave
\* a tree of height at most 5, the rebalance depth of 8 nodes
C21_AscendingEightAmended ==
    S6Done => (status = "ok" /\ t.rebal_cnt >= 1 /\ TreeDepth(t) <= 5)
C21_Witness ==
    S6Done /\ status = "ok" /\ BstOrder(t) /\ Cardinality(Reach(t)) = 8

\* ---- C22 ---------------------------------------------------------------------
\* the items that insert the keys of a set in ascending and in descending order
AscendingItems(keys) ==
    [i \in 1..Cardinality(keys) |-> Item(SortedKeys(keys)[i])]
DescendingItems(keys) ==
    [i \in 1..Cardinality(keys) |-> Item(SortedKeys(keys)[Cardinality(keys) + 1 - i])]

\* the in-order traversal of a tree: the pairs iter() yields, in its order
Traversal(t1) ==
    LET r == iter_items(t1, None)
    IN  [st |-> r.st,
         pairs |-> [i \in DOMAIN r.items |-> <<r.items[i].key, r.items[i].val>>]]

\* the root key and the child relation between keys
Shape(t1) ==
    [root |-> IF Reach(t1) = {} THEN None ELSE At(t1, t1.opt_root_idx).key,
     left |-> {<<At(t1, i).key, At(t1, At(t1, i).left_idx).key>> :
                  i \in {j \in Reach(t1) : At(t1, j).left_idx # None}},
     right |-> {<<At(t1, i).key, At(t1, At(t1, i).right_idx).key>> :
                  i \in {j \in Reach(t1) : At(t1, j).right_idx # None}}]

\* the tree made by consuming t1 with into_iter() and inserting the items
\* it yields, in its order, into an empty tree of the same capacity
Reinserted(t1) ==
    LET c == into_iter_run(t1)
    IN  IF c.st # "ok" THEN Abort(c.st, t1) ELSE from_iter(c.items, capacity(t1))

\* every order of insertion of the keys is a state: the traversal of each is
\* that of the same keys inserted in ascending and in descending order
C22_SameTraversal ==
    LET tr == Traversal(t)
    IN  /\ tr.st = "ok"
        /\ \A items \in {AscendingItems(DOMAIN M), DescendingItems(DOMAIN M)} :
              LET r == from_iter(items, capacity(t))
              IN  r.st = "ok" /\ Traversal(r.t) = tr

\* C22: the keys of a set inserted in any two orders give the same in-order
\* traversal, and the tree consumed into its ordered list and reinserted is
\* the same tree: same root key, same child relation between keys
C22_RoundTrip ==
    status = "ok" =>
        /\ C22_SameTraversal
        /\ Reinserted(t).st = "ok"
        /\ Shape(Reinserted(t).t) = Shape(t)

\* C22 as amended: the tree reinserted has the same in-order traversal
C22_RoundTripAmended ==
    status = "ok" =>
        /\ C22_SameTraversal
        /\ Reinserted(t).st = "ok"
        /\ Traversal(Reinserted(t).t) = Traversal(t)
C22_Witness ==
    /\ status = "ok" /\ last = "insert" /\ len(t) = 3
    /\ Reinserted(t).st = "ok"
    /\ Shape(Reinserted(t).t) # Shape(t)

\* ---- C23 ---------------------------------------------------------------------
\* the loops of the calls on the key k come to an end
C23_KeyCase(k) ==
    /\ get(t, k).st # "hang"
    /\ contains_key(t, k).st # "hang"
    /\ remove(t, k).st # "hang"
    /\ (k \in DOMAIN M \/ len(t) < capacity(t)) =>
           insert(t, k, ValOf(k), ValOf(k)).st # "hang"

\* C23: after any sequence of inserts and removes that respects the capacity
\* every call terminates: the descents of get, contains_key, insert and remove
\* for stored and for absent keys, the leftmost and rightmost walks that
\* refresh min_idx and max_idx, the worklists of the subtree size and of the
\* flattening, and the in-order iteration
C23_Terminates ==
    /\ status # "hang"
    /\ \A k \in ProbesOf(capacity(t)) : C23_KeyCase(k)
    /\ update_min_idx(t).st # "hang"
    /\ update_max_idx(t).st # "hang"
    /\ t.opt_root_idx # None =>
          /\ get_subtree_size(t, t.opt_root_idx).st # "hang"
          /\ flatten_subtree_to_sorted_idxs(t, t.opt_root_idx).st # "hang"
    /\ iter_items(t, None).st # "hang"

\* ---- C24 ---------------------------------------------------------------------
\* the occupied slots and the free list account for every slot of the arena,
\* the free indexes are those of empty slots, each listed once
ArenaAccounted(a) ==
    /\ Cardinality({i \in DOMAIN a.vec : a.vec[i].occ}) + Len(a.free_list) = Len(a.vec)
    /\ Len(a.vec) <= a.cap
    /\ \A j \in DOMAIN a.free_list :
          /\ a.free_list[j] >= 0 /\ a.free_list[j] < Len(a.vec)
          /\ ~is_occupied(a, a.free_list[j])
    /\ \A i, j \in DOMAIN a.free_list : i # j => a.free_list[i] # a.free_list[j]

\* C24: after every call (add, remove, sort and the tree calls built on them)
\* the occupied slots plus the length of the free list make the length of the
\* arena, which is at most N; each index of the free list is that of an empty
\* slot, and none is listed twice
C24_NoSlotLeak ==
    /\ ArenaAccounted(t.arena)
    /\ sort_arena(t).st = "ok" => ArenaAccounted(sort_arena(t).t.arena)
C24_Witness ==
    /\ last = "remove" /\ status = "ok"
    /\ len(t) >= 2 /\ t.arena.free_list # <<>>
    /\ sort_arena(t).st = "ok" /\ sort_arena(t).t.arena.free_list # t.arena.free_list

\* ---- C25 ---------------------------------------------------------------------
\* the indexes the links of the reachable nodes hold
LinkedIdxs(t1) ==
    {c \in UNION {{At(t1, i).left_idx, At(t1, i).right_idx} : i \in Reach(t1)} : c # None}

\* C25: after every sequence of calls the root index and the left and right
\* index of every node reachable from the root are those of occupied slots,
\* and no index reachable from the root is in the free list
C25_NoDanglingIndex ==
    /\ t.opt_root_idx # None => Occ(t, t.opt_root_idx)
    /\ \A c \in LinkedIdxs(t) : Occ(t, c)
    /\ \A j \in DOMAIN t.arena.free_list :
          t.arena.free_list[j] \notin Reach(t) \cup LinkedIdxs(t) \cup {t.opt_root_idx}

\* ---- C26 ---------------------------------------------------------------------
\* the edges of the child-index graph below the root: <<parent, side, child>>
Edges(t1) ==
    {e \in UNION {{<<i, "left", At(t1, i).left_idx>>, <<i, "right", At(t1, i).right_idx>>} :
                     i \in Reach(t1)} : e[3] # None}
EdgesInto(t1, c) == {e \in Edges(t1) : e[3] = c}

\* C26: after every sequence of inserts and removes the child-index graph is
\* a tree: no walk down the left and right indexes from the root comes back
\* to a node (no edge leads to the root, none from a node to itself), and
\* every other reachable node is the child of one node through one edge
C26_LinksFormTree ==
    /\ \A e \in Edges(t) : e[3] # e[1] /\ e[3] # t.opt_root_idx
    /\ \A c \in Reach(t) \ {t.opt_root_idx} : Cardinality(EdgesInto(t, c)) = 1

\* ---- C27 ---------------------------------------------------------------------
\* the index the link of an edge holds in the tree t1
LinkOf(t1, e) ==
    IF e[2] = "left" THEN At(t1, e[1]).left_idx ELSE At(t1, e[1]).right_idx

\* the removal of the node in slot x, which has two children: s is the slot
\* of its in-order successor, r the outcome of priv_remove
C27_Relinked(x, s, r) ==
    /\ Occ(r.t, s)
    /\ s # At(t, x).right_idx =>
          /\ \E p \in Subtree(t, At(t, x).right_idx) : At(t, p).left_idx = s
          /\ \A p \in Subtree(t, At(t, x).right_idx) :
                At(t, p).left_idx = s => At(r.t, p).left_idx = At(t, s).right_idx
    /\ At(r.t, s).left_idx = At(t, x).left_idx
    /\ At(r.t, s).right_idx =
          IF s = At(t, x).right_idx THEN At(t, s).right_idx ELSE At(t, x).right_idx
    /\ IF x = t.opt_root_idx THEN r.t.opt_root_idx = s
       ELSE \A e \in EdgesInto(t, x) : LinkOf(r.t, e) = s
    /\ Reach(r.t) = Reach(t) \ {x}

C27_Case(x) ==
    /\ leftmost(t, At(t, x).right_idx, 0).st = "ok"
    /\ priv_remove_by_key(t, At(t, x).key).st = "ok"
    /\ C27_Relinked(x, leftmost(t, At(t, x).right_idx, 0).idx,
                     priv_remove_by_key(t, At(t, x).key))

\* C27: when remove(k) targets a node X with two children, the in-order
\* successor S, the leftmost node of the right subtree of X, takes the place
\* of X by re-linking: the former right child of S becomes the left child of
\* the former parent of S when that parent is not X, S.left becomes the left
\* child X had, S.right the right child X had (or stays the right child of S
\* when S was the right child of X), the edge that led to X (or the root)
\* leads to S, and every other node reachable before is reachable after
C27_SuccessorRelink ==
    \A x \in Reach(t) :
        (At(t, x).left_idx # None /\ At(t, x).right_idx # None) => C27_Case(x)

\* ---- C28 ---------------------------------------------------------------------
\* the root index and the left and right index of every slot
Links(t1) ==
    [root |-> t1.opt_root_idx,
     left |-> [i \in DOMAIN t1.arena.vec |-> t1.arena.vec[i].left_idx],
     right |-> [i \in DOMAIN t1.arena.vec |-> t1.arena.vec[i].right_idx]]

C28_Case(k, v) ==
    LET r == insert(t, k, v, v)
    IN  /\ r.st = "ok"
        /\ Links(r.t) = Links(t)
        /\ r.t.rebal_cnt = t.rebal_cnt

\* C28: insert(k, v) of a key that is stored leaves the shape of the tree as
\* it was (the root index and the left and right index of every node) and
\* rebalances nothing (rebal_cnt is not incremented), however deep the node
\* that holds k
C28_ReplaceKeepsShape ==
    \A k \in DOMAIN M : \A v \in Vals : C28_Case(k, v)

\* ---- C29 ---------------------------------------------------------------------
\* the key, tag and value of every slot but those of the set out
SlotsBut(t1, out) ==
    [i \in OccupiedIdxs(t1) \ out |-> <<At(t1, i).key, At(t1, i).ktag, At(t1, i).val>>]

\* the outcome r of remove(k): the other keys stay where they are, the slot
\* of k is empty and on top of the free list, and the insert of a new key
\* fills that slot
C29_Case(k, r) ==
    /\ r.st = "ok"
    /\ Cardinality(SlotsOf(t, k)) = 1
    /\ SlotsBut(r.t, {}) = SlotsBut(t, SlotsOf(t, k))
    /\ \A i \in SlotsOf(t, k) :
          /\ ~Occ(r.t, i)
          /\ r.t.arena.free_list = Append(t.arena.free_list, i)
    /\ \A j \in ProbesOf(capacity(t)) \ ArenaKeys(r.t) :
          /\ insert(r.t, j, ValOf(j), ValOf(j)).st = "ok"
          /\ SlotsOf(insert(r.t, j, ValOf(j), ValOf(j)).t, j) = SlotsOf(t, k)

\* C29: remove(k) moves no key or value between arena slots: every key other
\* than k is stored at the index it had (also when the rebuild that a removal
\* triggers runs), the slot that held k is empty and pushed on top of the
\* free list, and the next insert of a new key is stored at that index
C29_RemoveKeepsSlots ==
    \A k \in DOMAIN M : C29_Case(k, remove(t, k))

\* ---- C30 ---------------------------------------------------------------------
\* the outcome r of remove(k) of a stored key, size being len() after it
C30_Case(r, size) ==
    /\ r.st = "ok"
    /\ len(r.t) = size
    /\ IF t.max_size > 2 * size
       THEN /\ r.t.max_size = size
            /\ size > 0 => r.t.rebal_cnt = t.rebal_cnt + 1
       ELSE /\ r.t.max_size = t.max_size
            /\ r.t.rebal_cnt = t.rebal_cnt

\* C30: after remove(k) of a stored key, when max_size > 2 * len() (len()
\* taken after the removal) the whole tree is rebuilt from the root and
\* max_size is set to len(); otherwise nothing is rebuilt and max_size is as
\* it was
C30_RemoveRebuild ==
    \A k \in DOMAIN M : C30_Case(remove(t, k), len(t) - 1)

\* ---- C31 ---------------------------------------------------------------------
\* insert of the new key j: max_size rises only to a len() that exceeds it
C31_InsertCase(j) ==
    LET r == insert(t, j, ValOf(j), ValOf(j))
    IN  /\ r.st = "ok"
        /\ r.t.max_size = IF len(r.t) > t.max_size THEN len(r.t) ELSE t.max_size

\* remove of the stored key k, then insert of the new key j: len() is as it
\* was, and max_size is no more than it was
C31_PairCase(k, j) ==
    LET r == remove(t, k)
    IN  /\ r.st = "ok"
        /\ insert(r.t, j, ValOf(j), ValOf(j)).st = "ok"
        /\ insert(r.t, j, ValOf(j), ValOf(j)).t.max_size <= t.max_size

\* C31: max_size is the largest value len() has taken since the last rebuild
\* of the whole tree by a removal (or since new() or clear()): the insert of
\* a new key raises it only when the new len() exceeds it, and a remove
\* followed by an insert, which leave len() as it was, do not increase it
C31_HighWaterIsPeak ==
    /\ len(t) <= t.max_size
    /\ \A j \in ProbesOf(capacity(t)) \ DOMAIN M :
          /\ len(t) < capacity(t) => C31_InsertCase(j)
          /\ \A k \in DOMAIN M : C31_PairCase(k, j)

\* ---- C32: the scapegoat search -----------------------------------------------
\* the number of nodes of the subtree rooted at idx, counted over the links
SizeAt(t1, idx) == Cardinality(Subtree(t1, idx))

\* the child, on the way down to the new leaf, of the ancestor at position p
PathChild(i, p) == IF p = Len(i.path) THEN i.ngh.node_idx ELSE i.path[p + 1]

\* the ancestor at position p of the path weighs too little against its child
Heavy(i, p) ==
    i.t.alpha_denom * SizeAt(i.t, PathChild(i, p)) > i.t.alpha_num * SizeAt(i.t, i.path[p])

\* the insertion of the new key j ran the search (the depth trigger fired)
Searched(i) ==
    /\ i.st = "ok"
    /\ Len(i.path) > alpha_balance_depth(i.t, i.t.max_size)

\* the first position, walking the path upward, that P holds of
FirstUp(i, P(_, _)) ==
    CHOOSE p \in 1..Len(i.path) :
        /\ P(i, p)
        /\ \A q \in (p + 1)..Len(i.path) : ~P(i, q)

C32_Case(j, P(_, _)) ==
    LET i == priv_insert(t, j, ValOf(j), ValOf(j))
    IN  Searched(i) =>
           /\ \E p \in 1..Len(i.path) : P(i, p)
           /\ find_scapegoat(i.t, i.path) = [st |-> "ok", idx |-> i.path[FirstUp(i, P)]]
           /\ insert(t, j, ValOf(j), ValOf(j)).st = "ok"
           /\ insert(t, j, ValOf(j), ValOf(j)).t = rebuild(i.t, i.path[FirstUp(i, P)]).t

Light(i, p) == ~Heavy(i, p)

\* C32: in the search that follows the insertion of a new leaf, the walk up
\* the path stops at the first ancestor with
\* alpha_denom * child_size <= alpha_num * ancestor_size, and the subtree of
\* that ancestor is the one rebuilt.
C32_FirstLightAncestor ==
    \A j \in (1..NGrow) \ DOMAIN M :
        len(t) < capacity(t) => C32_Case(j, Light)

\* C32 as amended: the walk stops at the first ancestor with
\* alpha_denom * child_size > alpha_num * ancestor_size, and the subtree of
\* that ancestor is the one rebuilt.
C32_FirstHeavyAncestor ==
    \A j \in (1..NGrow) \ DOMAIN M :
        len(t) < capacity(t) => C32_Case(j, Heavy)

\* a search has run and it stopped below the root
C32_Witness ==
    /\ last = "insert"
    /\ \E j \in (1..NGrow) \ DOMAIN M :
          /\ len(t) < capacity(t)
          /\ Searched(priv_insert(t, j, ValOf(j), ValOf(j)))
          /\ find_scapegoat(priv_insert(t, j, ValOf(j), ValOf(j)).t,
                            priv_insert(t, j, ValOf(j), ValOf(j)).path).idx # t.opt_root_idx

\* ---- C33: when an insertion rebuilds, and where ------------------------------
\* floor(log base (alpha_denom / alpha_num) of high_water)
DepthLimit(t1) ==
    CHOOSE d \in 0..t1.max_size :
        /\ t1.alpha_denom ^ d <= t1.max_size * t1.alpha_num ^ d
        /\ t1.alpha_denom ^ (d + 1) > t1.max_size * t1.alpha_num ^ (d + 1)

\* the deepest ancestor of the new leaf that is alpha-weight-unbalanced
DeepestHeavy(i) == i.path[FirstUp(i, Heavy)]

C33_Case(j) ==
    LET i == priv_insert(t, j, ValOf(j), ValOf(j))
        r == insert(t, j, ValOf(j), ValOf(j))
    IN  i.st = "ok" =>
           /\ r.st = "ok"
           /\ IF Len(i.path) > DepthLimit(i.t)
              THEN /\ \E p \in 1..Len(i.path) : Heavy(i, p)
                   /\ r.t.rebal_cnt = t.rebal_cnt + 1
                   /\ r.t = rebuild(i.t, DeepestHeavy(i)).t
              ELSE /\ r.t.rebal_cnt = t.rebal_cnt
                   /\ r.t = i.t

\* C33: the insertion of a new key rebuilds exactly when the length of the
\* recorded path exceeds floor(log base (alpha_denom/alpha_num) of high_water),
\* high_water counting the new node; then exactly one rebuild happens, rooted
\* at the deepest alpha-weight-unbalanced ancestor of the new leaf, and such an
\* ancestor exists.
C33_RebuildExactlyWhenDeep ==
    \A j \in (1..NGrow) \ DOMAIN M :
        len(t) < capacity(t) => C33_Case(j)

\* an insertion has just rebuilt, and one that does not rebuild is possible
C33_Witness ==
    /\ last = "insert"
    /\ t.rebal_cnt = 1
    /\ \E j \in (1..NGrow) \ DOMAIN M :
          /\ len(t) < capacity(t)
          /\ insert(t, j, ValOf(j), ValOf(j)).st = "ok"
          /\ insert(t, j, ValOf(j), ValOf(j)).t.rebal_cnt = 1

\* ---- C34: the shape rebuild gives a subtree -----------------------------------
\* the nodes of S that no node of S has for a child in t1
Tops(t1, S) ==
    {x \in S : \A y \in S : At(t1, y).left_idx # x /\ At(t1, y).right_idx # x}

\* the two subtrees of y weigh the same, or the right one node more
EvenSplit(t1, y) ==
    LET l == SizeAt(t1, At(t1, y).left_idx)
        r == SizeAt(t1, At(t1, y).right_idx)
    IN  l <= r /\ r <= l + 1

C34_Shape(t0, t1, S, x) ==
    LET m == Cardinality(S)
        h == Height(t1, x, m)
    IN  /\ Tops(t1, S) = {x}
        /\ Cardinality({y \in S : At(t0, y).key < At(t0, x).key}) = (m - 1) \div 2
        /\ Subtree(t1, x) = S
        /\ \A y \in S : EvenSplit(t1, y)
        /\ 2 ^ h <= m /\ m < 2 ^ (h + 1)

C34_Case(t0, idx) ==
    LET r == rebuild(t0, idx)
    IN  /\ r.st = "ok"
        /\ \E x \in Subtree(t0, idx) : C34_Shape(t0, r.t, Subtree(t0, idx), x)

\* the rebuild of the whole tree that remove_entry runs after removing k
C34_RemoveCase(k) ==
    LET r == priv_remove_by_key(t, k)
    IN  (/\ r.st = "ok" /\ r.ret.occ
         /\ r.t.max_size > 2 * r.t.curr_size /\ r.t.opt_root_idx # None) =>
            C34_Case(r.t, r.t.opt_root_idx)

\* the rebuild of the scapegoat's subtree that the insertion of j runs
C34_InsertCase(j) ==
    LET i == priv_insert(t, j, ValOf(j), ValOf(j))
    IN  (len(t) < capacity(t) /\ Searched(i)) =>
           C34_Case(i.t, find_scapegoat(i.t, i.path).idx)

\* C34: rebuild of a subtree of m nodes leaves the node at position
\* floor((m-1)/2) of the key-sorted list as the subtree root, the two subtrees
\* of every node with sizes left <= right <= left + 1, still exactly m nodes,
\* and a subtree of height floor(log2(m)).
C34_RebuildBalances ==
    /\ \A k \in DOMAIN M : C34_RemoveCase(k)
    /\ \A j \in ProbesOf(capacity(t)) \ DOMAIN M : C34_InsertCase(j)

\* ---- C35: what rebuild leaves alone --------------------------------------------
\* the slot at i without its two child links
Payload(t1, i) == [At(t1, i) EXCEPT !.left_idx = None, !.right_idx = None]

\* the child links of y in t1 are those in t0, but that a link to old is now
\* a link to new
Relinked(t0, t1, y, old, new) ==
    /\ At(t1, y).left_idx = IF At(t0, y).left_idx = old THEN new ELSE At(t0, y).left_idx
    /\ At(t1, y).right_idx = IF At(t0, y).right_idx = old THEN new ELSE At(t0, y).right_idx

C35_Kept(t0, t1, idx, x) ==
    /\ Traversal(t0).st = "ok"
    /\ Traversal(t1) = Traversal(t0)
    /\ len(t1) = len(t0)
    /\ Len(t1.arena.vec) = Len(t0.arena.vec)
    /\ t1.arena.free_list = t0.arena.free_list
    /\ \A i \in 0..(Len(t0.arena.vec) - 1) : Payload(t1, i) = Payload(t0, i)
    /\ t1.min_idx = t0.min_idx
    /\ t1.max_idx = t0.max_idx
    /\ \A y \in OccupiedIdxs(t0) \ Subtree(t0, idx) : Relinked(t0, t1, y, idx, x)
    /\ t1.opt_root_idx = IF t0.opt_root_idx = idx THEN x ELSE t0.opt_root_idx
    /\ t1.rebal_cnt = t0.rebal_cnt + 1

C35_Case(t0, idx) ==
    LET r == rebuild(t0, idx)
    IN  /\ r.st = "ok"
        /\ \E x \in Subtree(t0, idx) :
              /\ Tops(r.t, Subtree(t0, idx)) = {x}
              /\ C35_Kept(t0, r.t, idx, x)

\* the rebuild of the whole tree that remove_entry runs after removing k
C35_RemoveCase(k) ==
    LET r == priv_remove_by_key(t, k)
    IN  (/\ r.st = "ok" /\ r.ret.occ
         /\ r.t.max_size > 2 * r.t.curr_size /\ r.t.opt_root_idx # None) =>
            C35_Case(r.t, r.t.opt_root_idx)

\* the rebuild of the scapegoat's subtree that the insertion of j runs
C35_InsertCase(j) ==
    LET i == priv_insert(t, j, ValOf(j), ValOf(j))
    IN  (len(t) < capacity(t) /\ Searched(i)) =>
           C35_Case(i.t, find_scapegoat(i.t, i.path).idx)

\* C35: rebuild keeps the in-order key sequence of the whole tree and len,
\* the arena index, key and value of every node, min_idx and max_idx, and the
\* child links of every node outside the subtree but the one edge (or the
\* root field) that led to the old subtree root, which now leads to the new
\* one; rebal_cnt grows by exactly one.
C35_RebuildKeepsTheRest ==
    /\ \A k \in DOMAIN M : C35_RemoveCase(k)
    /\ \A j \in ProbesOf(capacity(t)) \ DOMAIN M : C35_InsertCase(j)

\* ---- C36: the lookup that records its path -------------------------------------
\* path walks the links from the root down to p, the holder of the link to x
AncestorsOf(t1, path, x) ==
    /\ path # <<>>
    /\ path[1] = t1.opt_root_idx
    /\ \A n \in 1..Len(path) :
          LET c == IF n = Len(path) THEN x ELSE path[n + 1]
          IN  /\ Occ(t1, path[n])
              /\ c \in {At(t1, path[n]).left_idx, At(t1, path[n]).right_idx}

C36_Found(g, key) ==
    LET x == g.ngh.node_idx
        p == g.ngh.parent_idx
    IN  /\ x # None /\ Occ(t, x) /\ At(t, x).key = key
        /\ IF x = t.opt_root_idx
           THEN p = None /\ ~g.ngh.is_right_child /\ g.path = <<>>
           ELSE /\ p # None /\ Occ(t, p)
                /\ x \in {At(t, p).left_idx, At(t, p).right_idx}
                /\ g.ngh.is_right_child <=> (At(t, p).right_idx = x)
                /\ AncestorsOf(t, g.path, x)
                /\ Last(g.path) = p

C36_Case(key) ==
    LET g == priv_get(t, TRUE, key)
    IN  /\ g.st = "ok"
        /\ IF key \in DOMAIN M
           THEN C36_Found(g, key)
           ELSE g.ngh.node_idx = None /\ g.path = <<>>

\* C36: the lookup with a path sink returns, for a stored key, the index of
\* its node, the node holding the link to it (None for the root) and whether
\* that link is a right link, and leaves in the path the strict ancestors of
\* the node from the root down to its parent; for an absent key the node
\* index is None and the path is empty.
C36_LookupWithPath ==
    \A key \in ProbesOf(capacity(t)) : C36_Case(key)

\* ---- C37: the index add returns ------------------------------------------------
\* the positions in the list of freed indexes whose slot is empty now
StillFree == {n \in 1..Len(M.freed) : ~is_occupied(t.arena, M.freed[n])}

\* the index freed last among them
MostRecentlyFreed == M.freed[CHOOSE n \in StillFree : \A o \in StillFree : o <= n]

\* C37: add returns the most recently freed index whenever the free list is
\* not empty, and the length of the arena before the call otherwise.
C37_AddReusesLastFreed ==
    LET r == arena_add(t.arena, 1, 1, ValOf(1))
    IN  IF t.arena.free_list # <<>>
        THEN r.st = "ok" /\ StillFree # {} /\ r.idx = MostRecentlyFreed
        ELSE r.st = "ok" => (StillFree = {} /\ r.idx = Len(t.arena.vec))

\* adds at 0, 1, 2, then remove(1) and later removes, and an add that took a
\* freed index while an older one stays free
C37_Witness ==
    /\ last = "add"
    /\ Len(M.freed) >= 2
    /\ M.freed[1] = 1
    /\ M.ret = M.freed[Len(M.freed)]
    /\ StillFree # {}
    /\ t.arena.free_list # <<>>

\* ---- C38: the arena sort --------------------------------------------------------
\* the key behind a child index of arena a: None for no child, -5 for an
\* index that names no occupied slot
ChildKey(a, idx) ==
    IF idx = None THEN None
    ELSE IF is_occupied(a, idx) THEN a.vec[idx + 1].key
    ELSE -5

\* for every stored key the keys of its two children
Topology(a) ==
    {<<a.vec[n].key, ChildKey(a, a.vec[n].left_idx), ChildKey(a, a.vec[n].right_idx)>> :
        n \in {o \in 1..Len(a.vec) : a.vec[o].occ}}

\* the key and value of every occupied slot
Stored(a) ==
    {<<a.vec[n].key, a.vec[n].ktag, a.vec[n].val>> : n \in {o \in 1..Len(a.vec) : a.vec[o].occ}}

\* the occupied slots are the first ones and their keys ascend with the index
SlotOrderIsKeyOrder(a) ==
    /\ \A n \in 1..Len(a.vec) : \A o \in 1..Len(a.vec) :
          (a.vec[n].occ /\ ~a.vec[o].occ) => n < o
    /\ \A n \in 1..Len(a.vec) : \A o \in 1..Len(a.vec) :
          (a.vec[n].occ /\ a.vec[o].occ /\ n < o) => a.vec[n].key < a.vec[o].key

\* every occupied slot has its retrieval helper in meta
HelpersGiven(t1, c) ==
    /\ c.st = "ok"
    /\ {c.meta[n].node_idx : n \in 1..Len(c.meta)} = OccupiedIdxs(t1)

C38_Sorted(a0, root_idx, s) ==
    /\ s.st = "ok"
    /\ Len(s.a.vec) = Len(a0.vec)
    /\ Stored(s.a) = Stored(a0)
    /\ SlotOrderIsKeyOrder(s.a)
    /\ Topology(s.a) = Topology(a0)
    /\ is_occupied(s.a, s.idx)
    /\ s.a.vec[s.idx + 1].key = a0.vec[root_idx + 1].key
    /\ Len(s.a.free_list) = Len(a0.free_list)
    /\ \A n \in 1..Len(s.a.free_list) :
          /\ s.a.free_list[n] < Len(s.a.vec)
          /\ ~is_occupied(s.a, s.a.free_list[n])

\* C38: the arena sort, given the retrieval helper of every occupied slot in
\* key order, permutes the slots so that slot order is ascending key order,
\* keeps for every key the keys of its left and right child, returns the new
\* index of the root, and leaves every free-list entry naming an empty slot.
C38_ArenaSort ==
    LET c == collect_sort_metadata(t, 0, <<>>)
    IN  (t.opt_root_idx # None /\ HelpersGiven(t, c)) =>
           C38_Sorted(t.arena, t.opt_root_idx,
                      arena_sort(t.arena, t.opt_root_idx, SortNghByKey(t, c.meta)))

\* ---- C39: sorting the arena twice ------------------------------------------------
\* what the claim compares: slots (with their child indexes), free list,
\* root, min_idx and max_idx
Layout(t1) ==
    [vec |-> t1.arena.vec, free_list |-> t1.arena.free_list,
     root |-> t1.opt_root_idx, min_idx |-> t1.min_idx, max_idx |-> t1.max_idx]

\* C39: the arena sort of iter_mut run twice in a row leaves the layout the
\* first run left: slots, child indexes, free list, root index, min_idx and
\* max_idx, in every tree that insertions and removals reach.
C39_SortTwice ==
    LET s1 == sort_arena(t)
    IN  /\ s1.st = "ok"
        /\ sort_arena(s1.t).st = "ok"
        /\ Layout(sort_arena(s1.t).t) = Layout(s1.t)

\* ---- C40: the swap-history cache -------------------------------------------------
\* C40: after any sequence of logged swaps of distinct positions the cache
\* holds at most one entry for an original index, and curr_idx(i) is the
\* position where the element that started at i is now (i when it never
\* moved), as the same swaps applied to the identity permutation give it.
C40_CacheTracksSwaps ==
    /\ status = "ok"
    /\ \A i \in DOMAIN M :
          /\ Cardinality({n \in 1..Len(t.history) : t.history[n].orig = i}) <= 1
          /\ swap_hist_curr_idx(t.history, i) = M[i]

\* an element has moved and come home while others are away, and one
\* position was never touched
C40_Witness ==
    /\ last = "add"
    /\ \E n \in 1..Len(t.history) : t.history[n].orig = t.history[n].curr
    /\ \E i \in DOMAIN M : M[i] # i
    /\ \E i \in DOMAIN M : \A n \in 1..Len(t.history) : t.history[n].orig # i

====
